---- MODULE Spec2Model ----
(***************************************************************************)
(* Verification model of the Budget-It financial algorithms.               *)
(*                                                                         *)
(* Part 1: src/utils/debtPayoff.ts (calculateAvalanche, calculateSnowball, *)
(*         calculatePayoffSchedule, compareStrategies).                    *)
(* Part 2: src/utils/monteCarloSimulation.ts (simulatePath, percentile,    *)
(*         runMonteCarloSimulation, runDeterministicSimulation).           *)
(* Part 3: src/utils/investmentCalc.ts (calculateInvestmentProjection).    *)
(* Part 4: recurringDetection.ts (detectRecurringTransactions).            *)
(* Part 5: src/utils/portfolioAllocation.ts                                *)
(*         (calculatePortfolioAllocation, determineAllocation).            *)
(*                                                                         *)
(* Amounts are integers.  Interest rates are annual percentages that are   *)
(* multiples of 1200, so that balance * (rate / 100 / 12) is an integer    *)
(* and the arithmetic of the model is the arithmetic of the code, which    *)
(* is exact in IEEE doubles on these values.                               *)
(***************************************************************************)
EXTENDS Integers, Sequences, FiniteSets, TLC

VARIABLES
    pc,            \* the last step taken: "ready" before any call
    liabilities,   \* argument: the list of liability accounts
    extraPayment,  \* argument: extra monthly payment
    avalanche,     \* DebtPayoffResult of calculateAvalanche
    snowball,      \* DebtPayoffResult of calculateSnowball
    comparison,    \* the savings returned by compareStrategies
    params,        \* argument: MonteCarloParams
    allPaths,      \* the yearly values of every simulated path
    mcResult,      \* MonteCarloResult of runMonteCarloSimulation
    secondResult,  \* MonteCarloResult of a second call with the same params
    projectionArgs, \* arguments of calculateInvestmentProjection
    projection,    \* InvestmentProjection it returns
    transactions,  \* argument of detectRecurringTransactions
    patterns,      \* the RecurringPattern list it returns
    portfolioInputs, \* argument of calculatePortfolioAllocation
    recommendation, \* PortfolioRecommendation it returns
    dayGaps,       \* argument of detectFrequency
    gapFrequency,  \* the frequency it returns
    forecastArgs,  \* arguments of projectFutureTransactions and the clock
    projected      \* the Transaction list it returns

debtVars == <<liabilities, extraPayment, avalanche, snowball, comparison>>

mcVars == <<params, allPaths, mcResult, secondResult>>

projectionVars == <<projectionArgs, projection>>

recurringVars == <<transactions, patterns>>

allocationVars == <<portfolioInputs, recommendation>>

frequencyVars == <<dayGaps, gapFrequency>>

forecastVars == <<forecastArgs, projected>>

\* the state outside the debt payoff engine
nonDebtVars ==
    <<mcVars, projectionVars, recurringVars, allocationVars, frequencyVars,
      forecastVars>>

\* the state outside the Monte Carlo simulator
nonMonteCarloVars ==
    <<debtVars, projectionVars, recurringVars, allocationVars, frequencyVars,
      forecastVars>>

\* the state outside the investment projection
nonProjectionVars ==
    <<debtVars, mcVars, recurringVars, allocationVars, frequencyVars,
      forecastVars>>

\* the state outside the recurring pattern detector
nonRecurringVars ==
    <<debtVars, mcVars, projectionVars, allocationVars, frequencyVars,
      forecastVars>>

\* the state outside the portfolio allocation
nonAllocationVars ==
    <<debtVars, mcVars, projectionVars, recurringVars, frequencyVars,
      forecastVars>>

\* the state outside detectFrequency
nonFrequencyVars ==
    <<debtVars, mcVars, projectionVars, recurringVars, allocationVars,
      forecastVars>>

\* the state outside projectFutureTransactions
nonForecastVars ==
    <<debtVars, mcVars, projectionVars, recurringVars, allocationVars,
      frequencyVars>>

vars == <<pc, liabilities, extraPayment, avalanche, snowball, comparison,
          params, allPaths, mcResult, secondResult,
          projectionArgs, projection, transactions, patterns,
          portfolioInputs, recommendation, dayGaps, gapFrequency,
          forecastArgs, projected>>

----------------------------------------------------------------------------
(* Bounds of the model *)

MaxDebts == 2
MaxBalance == 1
MaxMinPayment == 1
MaxExtraPayment == 0
BalanceCap == 1500
MaxInitialValue == 1
MaxContribution == 0
MaxYears == 1
MaxSimulations == 3
MaxRepeatedSimulations == 2
MaxPortfolioValue == 2
MaxProjectionContribution == 1
MaxProjectionYears == 1
MaxTransactions == 3
MaxAnnualWithdrawal == 9
MaxEquivalenceValue == 2
MaxEquivalenceContribution == 1
MaxEquivalenceYears == 2
MaxIntervals == 2
MaxForecastPatterns == 2
MaxMonthsAhead == 3
MaxIterations == 80

(* Program constants *)

SafetyLimit == 600
RateDivisor == 1200
MonthsPerYear == 12

----------------------------------------------------------------------------
(* Numbers that may be NaN (Math.max over an array with holes) *)

NaN == [isNaN |-> TRUE, value |-> 0]

Num(n) == [isNaN |-> FALSE, value |-> n]

\* JavaScript a <= b: false when either side is NaN
NumLeq(a, b) == ~a.isNaN /\ ~b.isNaN /\ a.value <= b.value

\* JavaScript a - b
NumMinus(a, b) == IF a.isNaN \/ b.isNaN THEN NaN ELSE Num(a.value - b.value)

Abs(x) == IF x < 0 THEN -x ELSE x

Max(a, b) == IF a >= b THEN a ELSE b

Min(a, b) == IF a <= b THEN a ELSE b

Range(s) == {s[i] : i \in DOMAIN s}

\* the sum of the elements of a sequence of numbers
RECURSIVE SumRange(_, _, _)
SumRange(s, lo, hi) ==
    IF lo > hi THEN 0
    ELSE IF lo = hi THEN s[lo]
    ELSE SumRange(s, lo, (lo + hi) \div 2) + SumRange(s, (lo + hi) \div 2 + 1, hi)

SumSeq(s) == SumRange(s, 1, Len(s))

\* the element of a one-element set; {e(v) : v \in {x}} evaluates x once
Only(S) == CHOOSE x \in S : TRUE

----------------------------------------------------------------------------
(* Array.prototype.sort is stable: insertion by key keeps the input order  *)
(* of elements with equal keys.                                            *)

RECURSIVE InsertByKey(_, _, _)
InsertByKey(sorted, x, key) ==
    IF sorted = <<>> THEN <<x>>
    ELSE IF key[x] < key[Head(sorted)] THEN <<x>> \o sorted
    ELSE <<Head(sorted)>> \o InsertByKey(Tail(sorted), x, key)

RECURSIVE StableSort(_, _)
StableSort(items, key) ==
    IF items = <<>> THEN <<>>
    ELSE InsertByKey(StableSort(SubSeq(items, 1, Len(items) - 1), key),
                     items[Len(items)], key)

\* calculateAvalanche: sort by interest rate descending
AvalancheOrder(debts) ==
    StableSort(debts, [d \in Range(debts) |-> -d.interestRate])

\* calculateSnowball: sort by |balance| ascending
SnowballOrder(debts) ==
    StableSort(debts, [d \in Range(debts) |-> Abs(d.balance)])

----------------------------------------------------------------------------
(* calculatePayoffSchedule *)

\* an index of the schedules array that was never assigned
Hole == [defined |-> FALSE, accountId |-> 0, payments |-> <<>>,
         totalInterest |-> 0, payoffDate |-> 0]

EmptySchedule(debt) ==
    [defined |-> TRUE, accountId |-> debt.id, payments |-> <<>>,
     totalInterest |-> 0, payoffDate |-> 0]

\* schedules[index] = v on a JavaScript array: the array grows to index
\* and the skipped indices are holes
SetAt(arr, index, v) ==
    IF index <= Len(arr) THEN [arr EXCEPT ![index] = v]
    ELSE arr \o [i \in 1..(index - Len(arr) - 1) |-> Hole] \o <<v>>

\* balance * rate, rate = interestRate / 100 / 12
Interest(balance, interestRate) == (balance * interestRate) \div RateDivisor

\* variant: the freed minimums are not added to the pool
AvailableExtraUserOnly(debts, currentBalances, extra, index) == extra

\* user extra + freed minimums of the paid-off debts
RECURSIVE AvailableExtra(_, _, _, _)
AvailableExtra(debts, currentBalances, extra, index) ==
    IF index > Len(debts) THEN extra
    ELSE AvailableExtra(debts, currentBalances,
            IF currentBalances[index] <= 0
            THEN extra + debts[index].minimumPayment ELSE extra,
            index + 1)

\* variant: only the debt that receives the pool is paid
PaymentOnlyWithExtra(minPayment, remainingExtra) ==
    IF remainingExtra > 0 THEN minPayment + remainingExtra ELSE 0

\* variant: the pool replaces the minimum instead of being added to it
PaymentOfPoolAlone(minPayment, remainingExtra) ==
    IF remainingExtra > 0 THEN remainingExtra ELSE minPayment

\* payment = minimum + the whole pool when the pool is positive
PaymentWithExtra(minPayment, remainingExtra) ==
    IF remainingExtra > 0 THEN minPayment + remainingExtra ELSE minPayment

\* variant: the pool is not zeroed after it was handed out
ExtraKeptAfterUse(remainingExtra) == remainingExtra

\* the pool after it was handed to a debt
ExtraAfterUse(remainingExtra) ==
    IF remainingExtra > 0 THEN 0 ELSE remainingExtra

\* variant: no cap
UncappedPayment(payment, maxPayment) == payment

\* payment capped at balance + interest
CappedPayment(payment, maxPayment) ==
    IF payment > maxPayment THEN maxPayment ELSE payment

\* variant: the excess of a capped payment is dropped
ExtraAfterCapDropped(remainingExtra, payment, maxPayment) == remainingExtra

\* variant: the whole payment that was asked goes back to the pool
ExtraAfterCapWholePayment(remainingExtra, payment, maxPayment) ==
    IF payment > maxPayment THEN remainingExtra + payment ELSE remainingExtra

\* the excess of a capped payment goes back to the pool
ExtraAfterCap(remainingExtra, payment, maxPayment) ==
    IF payment > maxPayment THEN remainingExtra + (payment - maxPayment)
    ELSE remainingExtra

\* variant: interest that the payment does not cover is not added
NewBalanceWithoutUnpaidInterest(balance, principal) ==
    IF principal > 0 THEN Max(0, balance - principal) ELSE balance

NewBalance(balance, principal) == Max(0, balance - principal)

\* the second forEach of the loop body, from index on
RECURSIVE PayDebts(_, _, _, _)
PayDebts(debts, st, remainingExtra, index) ==
    IF index > Len(debts) THEN st
    ELSE IF st.currentBalances[index] <= 0
    THEN PayDebts(debts, st, remainingExtra, index + 1)
    ELSE
      LET debt == debts[index]
          balance == st.currentBalances[index]
          minPayment == debt.minimumPayment
          interest == Interest(balance, debt.interestRate)
          wanted == PaymentWithExtra(minPayment, remainingExtra)
          maxPayment == balance + interest
          payment == CappedPayment(wanted, maxPayment)
          extraLeft == ExtraAfterCap(ExtraAfterUse(remainingExtra),
                                     wanted, maxPayment)
          principal == payment - interest
          newBalance == NewBalance(balance, principal)
          old == IF index <= Len(st.schedules) /\ st.schedules[index].defined
                 THEN st.schedules[index] ELSE EmptySchedule(debt)
          entry == [month |-> st.month, payment |-> payment,
                    principal |-> principal, interest |-> interest,
                    balance |-> newBalance]
          new == [old EXCEPT
                    !.payments = Append(@, entry),
                    !.totalInterest = @ + interest,
                    !.payoffDate = IF newBalance = 0 /\ @ = 0
                                   THEN st.month ELSE @]
          next == [st EXCEPT !.schedules = SetAt(@, index, new),
                             !.totalInterest = @ + interest,
                             !.totalPaid = @ + payment,
                             !.currentBalances[index] = newBalance]
      IN Only({PayDebts(debts, s, x, index + 1) : s \in {next}, x \in {extraLeft}})

\* one iteration of the while loop
MonthStep(debts, extra, st) ==
    LET st1 == [st EXCEPT !.month = @ + 1]
    IN Only({PayDebts(debts, s, x, 1) :
                s \in {st1},
                x \in {AvailableExtra(debts, st1.currentBalances, extra, 1)}})

\* variant: the loop stops as soon as one debt is paid off
LoopContinuesWhileAllOwe(st) ==
    /\ \A i \in DOMAIN st.currentBalances : st.currentBalances[i] > 0
    /\ st.month < SafetyLimit

\* the while condition
LoopContinues(st) ==
    /\ \E i \in DOMAIN st.currentBalances : st.currentBalances[i] > 0
    /\ st.month < SafetyLimit

\* a balance beyond the range of the model: the run is left out
OutOfRange(st) ==
    \E i \in DOMAIN st.currentBalances : st.currentBalances[i] > BalanceCap

\* one evaluation of the while condition and, when it holds, of the body
LoopIteration(debts, extra, st) ==
    IF ~OutOfRange(st) /\ LoopContinues(st)
    THEN MonthStep(debts, extra, st) ELSE st

\* n successive evaluations of the loop, halved to keep the nesting shallow;
\* month counts the executed bodies from 0, so SafetyLimit evaluations
\* run the while loop to its end
RECURSIVE RunLoop(_, _, _, _)
RunLoop(debts, extra, st, n) ==
    IF n = 0 THEN st
    ELSE IF n = 1 THEN LoopIteration(debts, extra, st)
    ELSE Only({RunLoop(debts, extra, s, n - (n \div 2)) :
                  s \in {RunLoop(debts, extra, st, n \div 2)}})

\* Math.max(...schedules.map(s => s.payments.length)): a hole spreads as
\* undefined and Math.max(undefined, ...) is NaN
RECURSIVE MaxLength(_)
MaxLength(schedules) ==
    IF schedules = <<>> THEN 0
    ELSE Max(Len(Head(schedules).payments), MaxLength(Tail(schedules)))

TotalMonths(schedules) ==
    IF Len(schedules) > 0
    THEN IF \E i \in DOMAIN schedules : ~schedules[i].defined
         THEN NaN ELSE Num(MaxLength(schedules))
    ELSE Num(0)

calculatePayoffSchedule(debts, extra, strategy) ==
    LET init == [currentBalances |-> [i \in DOMAIN debts |-> Abs(debts[i].balance)],
                 schedules |-> <<>>, totalInterest |-> 0, totalPaid |-> 0,
                 month |-> 0]
        final == RunLoop(debts, extra, init, SafetyLimit)
    IN [strategy |-> strategy,
        order |-> debts,
        debts |-> final.schedules,
        totalMonths |-> TotalMonths(final.schedules),
        totalInterest |-> final.totalInterest,
        totalPaid |-> final.totalPaid,
        months |-> final.month,
        aborted |-> OutOfRange(final)]

calculateAvalanche(debts, extra) ==
    calculatePayoffSchedule(AvalancheOrder(debts), extra, "avalanche")

calculateSnowball(debts, extra) ==
    calculatePayoffSchedule(SnowballOrder(debts), extra, "snowball")

----------------------------------------------------------------------------
(* Inputs *)

InterestRates == {0, 1200}

DebtValues ==
    [balance : 0..MaxBalance, interestRate : InterestRates,
     minimumPayment : 1..MaxMinPayment]

\* the account id is the position in the caller's list
WithIds(list) ==
    [i \in DOMAIN list |->
        [id |-> i, balance |-> list[i].balance,
         interestRate |-> list[i].interestRate,
         minimumPayment |-> list[i].minimumPayment]]

GridInputs ==
    UNION {{[debts |-> WithIds(l), extra |-> e] :
              l \in [1..n -> DebtValues], e \in 0..MaxExtraPayment} :
           n \in 0..MaxDebts}

Debt(b, r, m) == [balance |-> b, interestRate |-> r, minimumPayment |-> m]

\* the 0% inputs of __tests__/debtPayoff.test.ts (balances are negative there)
TestInputs ==
    { [debts |-> WithIds(<<Debt(-120, 0, 100)>>), extra |-> 0],
      [debts |-> WithIds(<<Debt(-500, 0, 100)>>), extra |-> 0],
      [debts |-> WithIds(<<Debt(-100, 0, 50), Debt(-1000, 0, 50)>>), extra |-> 0],
      [debts |-> WithIds(<<Debt(-30, 0, 50), Debt(-200, 0, 50)>>), extra |-> 0],
      [debts |-> WithIds(<<Debt(-100, 0, 100), Debt(-500, 0, 50)>>), extra |-> 50] }

\* further inputs: accounts without a minimum payment (minimumPayment || 0),
\* an extra payment that the first debt absorbs, a paid-off account in the
\* list, a small 0% debt beside a debt at 1200%, two equal debts with an
\* extra payment below their minimum, and a debt whose minimum is below its
\* interest until the minimum of the other debt is freed
ScenarioInputs ==
    { [debts |-> WithIds(<<Debt(1, 0, 0)>>), extra |-> 0],
      [debts |-> WithIds(<<Debt(2, 0, 0)>>), extra |-> 1],
      [debts |-> WithIds(<<Debt(2, 1200, 0), Debt(1, 0, 1)>>), extra |-> 0],
      [debts |-> WithIds(<<Debt(-500, 0, 100), Debt(-1000, 0, 50)>>), extra |-> 50],
      [debts |-> WithIds(<<Debt(-1000, 0, 50), Debt(0, 0, 25), Debt(-500, 0, 100)>>),
       extra |-> 0],
      [debts |-> WithIds(<<Debt(-30, 0, 50), Debt(-40, 1200, 50)>>), extra |-> 0],
      [debts |-> WithIds(<<Debt(1, 0, 2), Debt(1, 1200, 1)>>), extra |-> 0],
      [debts |-> WithIds(<<Debt(3, 0, 2), Debt(3, 0, 2)>>), extra |-> 1],
      [debts |-> WithIds(<<Debt(10, 1200, 5), Debt(15, 0, 20)>>), extra |-> 0] }

NoResult == [strategy |-> "none", order |-> <<>>, debts |-> <<>>,
             totalMonths |-> Num(0), totalInterest |-> 0, totalPaid |-> 0,
             months |-> 0, aborted |-> FALSE]

NoComparison == [done |-> FALSE, interestSavings |-> 0, timeSavings |-> Num(0)]

----------------------------------------------------------------------------
(* monteCarloSimulation.ts *)

\* Values that are not integers are fractions num / den; den = 0 is the
\* NaN of 0 / 0.
RECURSIVE GCD(_, _)
GCD(a, b) == IF b = 0 THEN Abs(a) ELSE GCD(b, a % b)

Rat(n, d) ==
    IF d = 0 THEN [num |-> 0, den |-> 0]
    ELSE LET g == GCD(Abs(n), Abs(d))
             sign == IF d < 0 THEN -1 ELSE 1
         IN [num |-> sign * (n \div g), den |-> sign * (d \div g)]

RatOfInt(n) == [num |-> n, den |-> 1]

IsNaNRat(a) == a.den = 0

\* JavaScript a <= b
RatLeq(a, b) == ~IsNaNRat(a) /\ ~IsNaNRat(b) /\ a.num * b.den <= b.num * a.den

\* JavaScript a / b for b # 0
RatDiv(a, b) == Rat(a.num * b.den, a.den * b.num)

RECURSIVE Pow(_, _)
Pow(b, e) == IF e = 0 THEN 1 ELSE b * Pow(b, e - 1)

\* The monthly returns Math.exp(monthlyLogMean + monthlyLogStd * z) - 1 that
\* the draws of one year produce: no change, one month at +100%, or a last
\* month at -100% (exp underflows below 1 ulp and the return is exactly -1).
YearDraws == {"flat", "boom", "crash"}

MonthlyReturn(draw, month) ==
    IF draw = "boom" /\ month = 0 THEN 1
    ELSE IF draw = "crash" /\ month = MonthsPerYear - 1 THEN -1
    ELSE 0

\* the body of the month loop of simulatePath
MonthUpdate(balance, monthlyReturn, monthlyContribution) ==
    LET grown == balance * (1 + monthlyReturn) + monthlyContribution
    IN IF grown < 0 THEN 0 ELSE grown

\* the month loop of simulatePath, from month on
RECURSIVE SimulateYear(_, _, _, _)
SimulateYear(balance, monthlyContribution, draw, month) ==
    IF month >= MonthsPerYear THEN balance
    ELSE Only({SimulateYear(b, monthlyContribution, draw, month + 1) :
                 b \in {MonthUpdate(balance, MonthlyReturn(draw, month),
                                    monthlyContribution)}})

\* the year loop of simulatePath, from year on; draws[year] stands for the
\* random numbers drawn in that year
RECURSIVE SimulateYears(_, _, _, _, _, _)
SimulateYears(balance, monthlyContribution, years, draws, year, yearlyValues) ==
    IF year > years THEN yearlyValues
    ELSE Only({SimulateYears(b, monthlyContribution, years, draws, year + 1,
                             Append(yearlyValues, b)) :
                 b \in {SimulateYear(balance, monthlyContribution, draws[year], 0)}})

simulatePath(initialValue, monthlyContribution, years, draws) ==
    SimulateYears(initialValue, monthlyContribution, years, draws, 1, <<>>)

\* variant: the values are left in path order
Unsorted(values) == values

\* valuesAtYear.sort((a, b) => a - b)
SortAscending(values) == StableSort(values, [v \in Range(values) |-> v])

\* percentile(sorted, p); sorted is 0-based in the code
percentile(sorted, p) ==
    IF Len(sorted) = 0 THEN RatOfInt(0)
    ELSE IF Len(sorted) = 1 THEN RatOfInt(sorted[1])
    ELSE LET scaled == p * (Len(sorted) - 1)     \* 100 * index
             lower == scaled \div 100
             upper == IF scaled % 100 = 0 THEN lower ELSE lower + 1
         IN IF lower = upper THEN RatOfInt(sorted[lower + 1])
            ELSE Rat(100 * sorted[lower + 1]
                       + (scaled % 100) * (sorted[upper + 1] - sorted[lower + 1]),
                     100)

\* Math.pow(1 + inflationRate / 100, year)
InflationFactor(inflationRate, year) ==
    Rat(Pow(100 + inflationRate, year), Pow(100, year))

\* variant: the adjustment is applied for every rate
InflationAlwaysApplies(inflationRate) == TRUE

\* whether the inflation adjustment is applied
InflationApplies(inflationRate) == inflationRate > 0

AdjustBand(d, inflationRate) ==
    IF InflationApplies(inflationRate)
    THEN LET factor == InflationFactor(inflationRate, d.year)
         IN [year |-> d.year,
             p10 |-> RatDiv(d.p10, factor), p25 |-> RatDiv(d.p25, factor),
             p50 |-> RatDiv(d.p50, factor), p75 |-> RatDiv(d.p75, factor),
             p90 |-> RatDiv(d.p90, factor),
             contributions |-> RatDiv(d.contributions, factor)]
    ELSE d

\* the band of year y (1-based) over the simulated paths
YearBand(ps, paths, y) ==
    LET valuesAtYear == SortAscending([sim \in DOMAIN paths |-> paths[sim][y]])
    IN [year |-> y,
        p10 |-> percentile(valuesAtYear, 10),
        p25 |-> percentile(valuesAtYear, 25),
        p50 |-> percentile(valuesAtYear, 50),
        p75 |-> percentile(valuesAtYear, 75),
        p90 |-> percentile(valuesAtYear, 90),
        contributions |->
            RatOfInt(ps.initialValue + ps.monthlyContribution * MonthsPerYear * y)]

\* variant: the probabilities are taken on inflation-adjusted final values
StatisticsOnRealValues(ps, paths) ==
    LET finalValues == SortAscending([sim \in DOMAIN paths |-> paths[sim][ps.years]])
        totalContributions ==
            ps.initialValue + ps.monthlyContribution * MonthsPerYear * ps.years
        up == IF InflationApplies(ps.inflationRate)
              THEN Pow(100 + ps.inflationRate, ps.years) ELSE 1
        down == IF InflationApplies(ps.inflationRate) THEN Pow(100, ps.years) ELSE 1
        n == Len(finalValues)
    IN [done |-> TRUE,
        yearlyData |->
            [y \in 1..ps.years |-> AdjustBand(YearBand(ps, paths, y), ps.inflationRate)],
        finalValues |-> finalValues,
        medianFinal |-> percentile(finalValues, 50),
        meanFinal |-> Rat(SumSeq(finalValues), n),
        probabilityOfDoubling |->
            Rat(Cardinality({i \in 1..n :
                    finalValues[i] * down >= 2 * totalContributions * up}), n),
        probabilityOfLoss |->
            Rat(Cardinality({i \in 1..n :
                    finalValues[i] * down < totalContributions * up}), n)]

\* the stochastic branch of runMonteCarloSimulation on the simulated paths
MonteCarloStatistics(ps, paths) ==
    LET finalValues == SortAscending([sim \in DOMAIN paths |-> paths[sim][ps.years]])
        totalContributions ==
            ps.initialValue + ps.monthlyContribution * MonthsPerYear * ps.years
        n == Len(finalValues)
    IN [done |-> TRUE,
        yearlyData |->
            [y \in 1..ps.years |-> AdjustBand(YearBand(ps, paths, y), ps.inflationRate)],
        finalValues |-> finalValues,
        medianFinal |-> percentile(finalValues, 50),
        meanFinal |-> Rat(SumSeq(finalValues), n),
        probabilityOfDoubling |->
            Rat(Cardinality({i \in 1..n : finalValues[i] >= 2 * totalContributions}), n),
        probabilityOfLoss |->
            Rat(Cardinality({i \in 1..n : finalValues[i] < totalContributions}), n)]

\* variant: the contribution is added before the month's growth
RECURSIVE CompoundYearDue(_, _, _, _)
CompoundYearDue(balance, monthlyRate, monthlyContribution, m) ==
    IF m >= MonthsPerYear THEN balance
    ELSE Only({CompoundYearDue(b, monthlyRate, monthlyContribution, m + 1) :
                 b \in {(balance + monthlyContribution) * (1 + monthlyRate)}})

\* balance after the months of one more year at monthlyRate
RECURSIVE CompoundYear(_, _, _, _)
CompoundYear(balance, monthlyRate, monthlyContribution, m) ==
    IF m >= MonthsPerYear THEN balance
    ELSE Only({CompoundYear(b, monthlyRate, monthlyContribution, m + 1) :
                 b \in {balance * (1 + monthlyRate) + monthlyContribution}})

\* balance at the end of year y of the deterministic path
RECURSIVE DeterministicBalance(_, _)
DeterministicBalance(ps, y) ==
    IF y = 0 THEN ps.initialValue
    ELSE Only({CompoundYear(b, ps.annualReturn \div RateDivisor,
                            ps.monthlyContribution, 0) :
                 b \in {DeterministicBalance(ps, y - 1)}})

\* the compounded balance fits the integers of the model
WithinIntegers(ps) ==
    ps.annualReturn = 0 \/ MonthsPerYear * ps.years <= 24

\* variant: no zero-volatility branch, the constant path goes through the
\* statistics of numSimulations simulated paths
runZeroVolatilityOnPaths(ps) ==
    MonteCarloStatistics(ps,
        [sim \in 1..ps.numSimulations |->
            simulatePath(ps.initialValue, ps.monthlyContribution, ps.years,
                         [y \in 1..ps.years |-> "flat"])])

runDeterministicSimulation(ps) ==
    LET balance == DeterministicBalance(ps, ps.years)
        totalContributions ==
            ps.initialValue + ps.monthlyContribution * MonthsPerYear * ps.years
    IN [done |-> TRUE,
        yearlyData |->
            [y \in 1..ps.years |->
                LET raw == RatOfInt(DeterministicBalance(ps, y))
                    contributions ==
                        RatOfInt(ps.initialValue
                                   + ps.monthlyContribution * MonthsPerYear * y)
                    value == IF InflationApplies(ps.inflationRate)
                             THEN RatDiv(raw, InflationFactor(ps.inflationRate, y))
                             ELSE raw
                IN [year |-> y, p10 |-> value, p25 |-> value, p50 |-> value,
                    p75 |-> value, p90 |-> value,
                    contributions |->
                        IF InflationApplies(ps.inflationRate)
                        THEN RatDiv(contributions,
                                    InflationFactor(ps.inflationRate, y))
                        ELSE contributions]],
        finalValues |-> <<balance>>,
        medianFinal |-> RatOfInt(balance),
        meanFinal |-> RatOfInt(balance),
        probabilityOfDoubling |->
            RatOfInt(IF balance >= 2 * totalContributions THEN 1 ELSE 0),
        probabilityOfLoss |->
            RatOfInt(IF balance < totalContributions THEN 1 ELSE 0)]

----------------------------------------------------------------------------
(* Inputs of the Monte Carlo simulator *)

\* annual returns whose monthly rate annualReturn / 100 / 12 is an integer
AnnualReturns == {0, 1200}

\* a non-positive rate is not applied
InflationRates == {-200, 0, 100}

\* annualVolatility = 0 selects the deterministic path
DeterministicParamSets ==
    [initialValue : 1..MaxInitialValue,
     monthlyContribution : (-1)..MaxContribution,
     annualReturn : AnnualReturns,
     annualVolatility : {0},
     inflationRate : InflationRates,
     years : 1..MaxYears,
     numSimulations : 0..MaxSimulations]

\* on the stochastic path the return and the volatility only shape the
\* distribution of the draws
StochasticParamSets ==
    [initialValue : 1..MaxInitialValue,
     monthlyContribution : (-1)..MaxContribution,
     annualReturn : {700},
     annualVolatility : {1500},
     inflationRate : InflationRates,
     years : 1..MaxYears,
     numSimulations : 0..MaxSimulations]

ParamSets == DeterministicParamSets \cup StochasticParamSets

NoParams == [initialValue |-> 0, monthlyContribution |-> 0, annualReturn |-> 0,
             annualVolatility |-> 0, inflationRate |-> 0, years |-> 0,
             numSimulations |-> 0]

NoMonteCarloResult ==
    [done |-> FALSE, yearlyData |-> <<>>, finalValues |-> <<>>,
     medianFinal |-> RatOfInt(0), meanFinal |-> RatOfInt(0),
     probabilityOfDoubling |-> RatOfInt(0), probabilityOfLoss |-> RatOfInt(0)]

----------------------------------------------------------------------------
(* investmentCalc.ts *)

\* JavaScript a * b, a + b and a - b on fractions; NaN stays NaN
RatMul(a, b) ==
    IF IsNaNRat(a) \/ IsNaNRat(b) THEN Rat(0, 0)
    ELSE Rat(a.num * b.num, a.den * b.den)

RatAdd(a, b) ==
    IF IsNaNRat(a) \/ IsNaNRat(b) THEN Rat(0, 0)
    ELSE Rat(a.num * b.den + b.num * a.den, a.den * b.den)

RatSub(a, b) == RatAdd(a, RatMul(RatOfInt(-1), b))

\* the future value of the contributions as an ordinary annuity
AnnuityValue(monthlyContribution, monthlyRate, months) ==
    IF monthlyContribution > 0
    THEN RatMul(RatOfInt(monthlyContribution),
                Rat(Pow(1 + monthlyRate, months) - 1, monthlyRate))
    ELSE RatOfInt(0)

\* variant: the compound formula is used for every rate
FutureValueByFormula(portfolioValue, monthlyContribution, monthlyRate, months) ==
    RatAdd(RatOfInt(portfolioValue * Pow(1 + monthlyRate, months)),
           AnnuityValue(monthlyContribution, monthlyRate, months))

\* futureValue: linear when the monthly rate is 0, compound otherwise
FutureValue(portfolioValue, monthlyContribution, monthlyRate, months) ==
    IF monthlyRate = 0
    THEN RatOfInt(portfolioValue + monthlyContribution * months)
    ELSE RatAdd(RatOfInt(portfolioValue * Pow(1 + monthlyRate, months)),
                AnnuityValue(monthlyContribution, monthlyRate, months))

calculateInvestmentProjection(a) ==
    LET monthlyRate == a.annualReturn \div RateDivisor
        months == a.years * MonthsPerYear
        futureValue == FutureValue(a.portfolioValue, a.monthlyContribution,
                                   monthlyRate, months)
        totalContributions == a.portfolioValue + a.monthlyContribution * months
    IN [done |-> TRUE,
        futureValue |-> futureValue,
        totalContributions |-> RatOfInt(totalContributions),
        investmentGains |-> RatSub(futureValue, RatOfInt(totalContributions)),
        realValue |-> IF a.inflationRate = 0 THEN futureValue
                      ELSE RatDiv(futureValue,
                                  InflationFactor(a.inflationRate, a.years))]

\* annual returns whose monthly rate is an integer: -100%, 0% and +100% a month
ProjectionReturns == {-1200, 0, 1200}

ProjectionArgSets ==
    [portfolioValue : 0..MaxPortfolioValue,
     monthlyContribution : (-1)..MaxProjectionContribution,
     annualReturn : ProjectionReturns,
     years : 1..MaxProjectionYears,
     inflationRate : InflationRates]

NoProjectionArgs ==
    [portfolioValue |-> 0, monthlyContribution |-> 0, annualReturn |-> 0,
     years |-> 0, inflationRate |-> 0]

NoProjection ==
    [done |-> FALSE, futureValue |-> RatOfInt(0),
     totalContributions |-> RatOfInt(0), investmentGains |-> RatOfInt(0),
     realValue |-> RatOfInt(0)]

\* no projection was asked for
ProjectionIdle ==
    /\ projectionArgs = NoProjectionArgs
    /\ projection = NoProjection

\* no debt payoff was asked for
DebtIdle ==
    /\ liabilities = <<>>
    /\ extraPayment = 0
    /\ avalanche = NoResult
    /\ snowball = NoResult
    /\ comparison = NoComparison

\* no simulation was asked for
MonteCarloIdle ==
    /\ params = NoParams
    /\ allPaths = <<>>
    /\ mcResult = NoMonteCarloResult
    /\ secondResult = NoMonteCarloResult

----------------------------------------------------------------------------
(* recurringDetection.ts *)

\* A description is a sequence of characters; a date is a calendar day.
LowerLetters == {"a", "b", "c"}

UpperLetters == {"A", "B", "C"}

Digits == {"1", "2"}

Spaces == {" "}

ToLowerCase(c) ==
    IF c = "A" THEN "a" ELSE IF c = "B" THEN "b" ELSE IF c = "C" THEN "c" ELSE c

IsNoDigit(c) == c \notin Digits

IsLetterOrSpace(c) == c \in LowerLetters \cup Spaces

\* String.prototype.trim
RECURSIVE TrimStart(_)
TrimStart(s) ==
    IF s # <<>> /\ Head(s) \in Spaces THEN TrimStart(Tail(s)) ELSE s

RECURSIVE TrimEnd(_)
TrimEnd(s) ==
    IF s # <<>> /\ s[Len(s)] \in Spaces
    THEN TrimEnd(SubSeq(s, 1, Len(s) - 1)) ELSE s

Trim(s) == TrimEnd(TrimStart(s))

\* replace(/\s+/g, ' ')
RECURSIVE CollapseSpaces(_)
CollapseSpaces(s) ==
    IF s = <<>> THEN <<>>
    ELSE IF Head(s) \in Spaces
    THEN <<" ">> \o CollapseSpaces(TrimStart(s))
    ELSE <<Head(s)>> \o CollapseSpaces(Tail(s))

\* variant: the digits are kept as if they were letters
NormalizeKeepingDigits(desc) ==
    LET IsKept(c) == c \in LowerLetters \cup Spaces \cup Digits
    IN CollapseSpaces(Trim(SelectSeq([i \in DOMAIN desc |-> ToLowerCase(desc[i])],
                                     IsKept)))

normalizeDescription(desc) ==
    LET lower == [i \in DOMAIN desc |-> ToLowerCase(desc[i])]
        noNumbers == SelectSeq(lower, IsNoDigit)
        noSpecial == SelectSeq(noNumbers, IsLetterOrSpace)
    IN CollapseSpaces(Trim(noSpecial))

\* desc.split(/\s+/).filter(Boolean) as a set, from position i on
RECURSIVE WordsFrom(_, _, _)
WordsFrom(s, i, current) ==
    LET finished == IF current = <<>> THEN {} ELSE {current}
    IN IF i > Len(s) THEN finished
       ELSE IF s[i] \in Spaces THEN finished \cup WordsFrom(s, i + 1, <<>>)
       ELSE WordsFrom(s, i + 1, Append(current, s[i]))

Words(s) == WordsFrom(s, 1, <<>>)

\* variant: a similarity of exactly 0.6 counts as similar
areSimilarFromThreshold(desc1, desc2) ==
    LET words1 == Words(desc1)
        words2 == Words(desc2)
    IN IF words1 = {} \/ words2 = {} THEN FALSE
       ELSE 10 * Cardinality(words1 \cap words2) >= 6 * Cardinality(words1 \cup words2)

\* similarity = |intersection| / |union| > 0.6
areSimilar(desc1, desc2) ==
    LET words1 == Words(desc1)
        words2 == Words(desc2)
    IN IF words1 = {} \/ words2 = {} THEN FALSE
       ELSE 10 * Cardinality(words1 \cap words2) > 6 * Cardinality(words1 \cup words2)

\* variant: the similar key that was created last
RECURSIVE LastSimilar(_, _, _)
LastSimilar(groups, normalized, k) ==
    IF k > Len(groups) THEN 0
    ELSE LET later == LastSimilar(groups, normalized, k + 1)
         IN IF later > 0 THEN later
            ELSE IF areSimilar(normalized, groups[k].key) THEN k
            ELSE 0

\* the first key of groups, in creation order, that is similar; 0 if none
RECURSIVE FirstSimilar(_, _, _)
FirstSimilar(groups, normalized, k) ==
    IF k > Len(groups) THEN 0
    ELSE IF areSimilar(normalized, groups[k].key) THEN k
    ELSE FirstSimilar(groups, normalized, k + 1)

\* groups[normalized] = [txn]: a new key, or the value of an existing key
AssignGroup(groups, normalized, txn) ==
    IF \E k \in DOMAIN groups : groups[k].key = normalized
    THEN [k \in DOMAIN groups |->
            IF groups[k].key = normalized
            THEN [key |-> normalized, txns |-> <<txn>>] ELSE groups[k]]
    ELSE Append(groups, [key |-> normalized, txns |-> <<txn>>])

\* the body of the loop of groupBySimilarDescription
AddToGroups(groups, txn) ==
    LET normalized == normalizeDescription(txn.description)
        found == FirstSimilar(groups, normalized, 1)
    IN IF normalized = <<>> THEN groups
       ELSE IF found > 0
       THEN [groups EXCEPT ![found].txns = Append(@, txn)]
       ELSE AssignGroup(groups, normalized, txn)

\* the groups as the entries of the object, in key creation order
RECURSIVE groupBySimilarDescription(_)
groupBySimilarDescription(txns) ==
    IF txns = <<>> THEN <<>>
    ELSE Only({AddToGroups(groups, txns[Len(txns)]) :
                 groups \in {groupBySimilarDescription(SubSeq(txns, 1, Len(txns) - 1))}})

\* calendar days
IsLeapYear(y) == (y % 4 = 0 /\ y % 100 # 0) \/ y % 400 = 0

DaysInMonth(y, m) ==
    IF m = 2 THEN (IF IsLeapYear(y) THEN 29 ELSE 28)
    ELSE IF m \in {4, 6, 9, 11} THEN 30 ELSE 31

RECURSIVE DaysBeforeMonth(_, _)
DaysBeforeMonth(y, m) ==
    IF m <= 1 THEN 0 ELSE DaysBeforeMonth(y, m - 1) + DaysInMonth(y, m - 1)

\* the days of the years before y
DaysBeforeYear(y) ==
    LET p == y - 1
    IN 365 * p + (p \div 4) - (p \div 100) + (p \div 400)

\* new Date(date).getTime() in days
DayNumber(date) ==
    DaysBeforeYear(date.year) + DaysBeforeMonth(date.year, date.month) + date.day

Day(y, m, d) == [year |-> y, month |-> m, day |-> d]

\* date-fns addDays
RECURSIVE AddDays(_, _)
AddDays(date, n) ==
    IF n = 0 THEN date
    ELSE IF date.day < DaysInMonth(date.year, date.month)
    THEN AddDays(Day(date.year, date.month, date.day + 1), n - 1)
    ELSE IF date.month < 12
    THEN AddDays(Day(date.year, date.month + 1, 1), n - 1)
    ELSE AddDays(Day(date.year + 1, 1, 1), n - 1)

addWeeks(date, n) == AddDays(date, 7 * n)

\* date-fns addMonths: the day is cut to the length of the target month
addMonths(date, n) ==
    LET index == (date.month - 1) + n
        y == date.year + (index \div 12)
        m == (index % 12) + 1
    IN Day(y, m, Min(date.day, DaysInMonth(y, m)))

\* variant: the monthly band is not tested
FrequencyWithoutMonthly(gaps) ==
    LET n == Len(gaps)
        sum == SumSeq(gaps)
    IN IF n = 0 THEN "null"
       ELSE IF Abs(sum - 7 * n) <= 2 * n THEN "weekly"
       ELSE IF Abs(sum - 14 * n) <= 3 * n THEN "biweekly"
       ELSE IF Abs(sum - 90 * n) <= 15 * n THEN "quarterly"
       ELSE IF Abs(sum - 365 * n) <= 30 * n THEN "yearly"
       ELSE "null"

\* variant: the yearly band keeps a tolerance of 15 days
FrequencyWithTightYearly(gaps) ==
    LET n == Len(gaps)
        sum == SumSeq(gaps)
    IN IF n = 0 THEN "null"
       ELSE IF Abs(sum - 7 * n) <= 2 * n THEN "weekly"
       ELSE IF Abs(sum - 14 * n) <= 3 * n THEN "biweekly"
       ELSE IF Abs(sum - 30 * n) <= 5 * n THEN "monthly"
       ELSE IF Abs(sum - 90 * n) <= 15 * n THEN "quarterly"
       ELSE IF Abs(sum - 365 * n) <= 15 * n THEN "yearly"
       ELSE "null"

\* |avgInterval - c| <= t with avgInterval = sum / n; 0 / 0 matches no band
detectFrequency(gaps) ==
    LET n == Len(gaps)
        sum == SumSeq(gaps)
    IN IF n = 0 THEN "null"
       ELSE IF Abs(sum - 7 * n) <= 2 * n THEN "weekly"
       ELSE IF Abs(sum - 14 * n) <= 3 * n THEN "biweekly"
       ELSE IF Abs(sum - 30 * n) <= 5 * n THEN "monthly"
       ELSE IF Abs(sum - 90 * n) <= 15 * n THEN "quarterly"
       ELSE IF Abs(sum - 365 * n) <= 30 * n THEN "yearly"
       ELSE "null"

predictNextOccurrence(lastDate, frequency) ==
    IF frequency = "weekly" THEN addWeeks(lastDate, 1)
    ELSE IF frequency = "biweekly" THEN addWeeks(lastDate, 2)
    ELSE IF frequency = "monthly" THEN addMonths(lastDate, 1)
    ELSE IF frequency = "quarterly" THEN addMonths(lastDate, 3)
    ELSE addMonths(lastDate, 12)

\* variant: groups of any size are examined
AnyOccurrences(txns) == TRUE

\* txns.length >= 3
EnoughOccurrences(txns) == Len(txns) >= 3

\* (standardDeviation / avgInterval)^2 = variance / avgInterval^2
\*   = (n * sum of squares - sum^2) / sum^2.
\* confidence = max(0, 1 - sqrt(RelativeVariance)), so a larger relative
\* variance is a smaller confidence.
RelativeVariance(intervals) ==
    LET n == Len(intervals)
        sum == SumSeq(intervals)
        squares == SumSeq([i \in DOMAIN intervals |-> intervals[i] * intervals[i]])
    IN Rat(n * squares - sum * sum, sum * sum)

\* variant: every confidence is accepted
AnyConfidence(relativeVariance) == TRUE

\* Number.isFinite(confidence) and confidence >= 0.5:
\* 1 - sqrt(v) >= 1/2 iff v <= 1/4
ReasonableConfidence(relativeVariance) ==
    /\ ~IsNaNRat(relativeVariance)
    /\ RatLeq(relativeVariance, Rat(1, 4))

\* b.confidence - a.confidence < 0: a has the larger confidence
HasLargerConfidence(a, b) ==
    /\ RatLeq(a.relativeVariance, b.relativeVariance)
    /\ a.relativeVariance # b.relativeVariance

\* variant: the patterns stay in the order of their groups
KeepGroupOrder(found) == found

RECURSIVE InsertByConfidence(_, _)
InsertByConfidence(sorted, p) ==
    IF sorted = <<>> THEN <<p>>
    ELSE IF HasLargerConfidence(p, Head(sorted)) THEN <<p>> \o sorted
    ELSE <<Head(sorted)>> \o InsertByConfidence(Tail(sorted), p)

\* patterns.sort((a, b) => b.confidence - a.confidence), a stable sort
RECURSIVE SortByConfidence(_)
SortByConfidence(found) ==
    IF found = <<>> THEN <<>>
    ELSE InsertByConfidence(SortByConfidence(SubSeq(found, 1, Len(found) - 1)),
                            found[Len(found)])

\* the body of the loop over the groups: the pattern of a group, if any
PatternsOfGroup(group) ==
    LET sorted == StableSort(group.txns,
                             [t \in Range(group.txns) |-> DayNumber(t.date)])
        intervals == [i \in 1..(Len(sorted) - 1) |->
                         DayNumber(sorted[i + 1].date) - DayNumber(sorted[i].date)]
        frequency == detectFrequency(intervals)
        relativeVariance == RelativeVariance(intervals)
    IN IF ~EnoughOccurrences(group.txns) THEN <<>>
       ELSE IF frequency = "null" THEN <<>>
       ELSE IF SumSeq(intervals) = 0 THEN <<>>
       ELSE IF ~ReasonableConfidence(relativeVariance) THEN <<>>
       ELSE << [description |-> group.key,
                frequency |-> frequency,
                averageAmount |->
                    Rat(SumSeq([i \in DOMAIN sorted |-> sorted[i].amount]), Len(sorted)),
                transactions |-> sorted,
                relativeVariance |-> relativeVariance,
                nextOccurrence |->
                    predictNextOccurrence(sorted[Len(sorted)].date, frequency)] >>

RECURSIVE PatternsOfGroups(_, _)
PatternsOfGroups(groups, k) ==
    IF k > Len(groups) THEN <<>>
    ELSE PatternsOfGroup(groups[k]) \o PatternsOfGroups(groups, k + 1)

detectRecurringTransactions(txns) ==
    SortByConfidence(PatternsOfGroups(groupBySimilarDescription(txns), 1))

\* the text appended to the description of a projected transaction
ProjectedSuffix == <<" ", "(", "p", "r", "o", "j", "e", "c", "t", "e", "d", ")">>

\* variant: the loop stops when the date reaches endDate
ProjectionStepBeforeEnd(pattern, endDate, st) ==
    IF st.returned THEN st
    ELSE IF ~(DayNumber(st.currentDate) < DayNumber(endDate))
    THEN [st EXCEPT !.returned = TRUE]
    ELSE [st EXCEPT
            !.emitted = Append(@, [date |-> st.currentDate,
                                   description |-> pattern.description \o ProjectedSuffix,
                                   amount |-> pattern.averageAmount]),
            !.currentDate = predictNextOccurrence(@, pattern.frequency)]

\* one evaluation of the while condition and, when it holds, of the body;
\* returned tells that the condition has ended the loop
ProjectionStep(pattern, endDate, st) ==
    IF st.returned THEN st
    ELSE IF ~(DayNumber(st.currentDate) <= DayNumber(endDate))
    THEN [st EXCEPT !.returned = TRUE]
    ELSE [st EXCEPT
            !.emitted = Append(@, [date |-> st.currentDate,
                                   description |-> pattern.description \o ProjectedSuffix,
                                   amount |-> pattern.averageAmount]),
            !.currentDate = predictNextOccurrence(@, pattern.frequency)]

\* n successive evaluations of the loop, halved to keep the nesting shallow
RECURSIVE ProjectionSteps(_, _, _, _)
ProjectionSteps(pattern, endDate, st, n) ==
    IF n = 0 THEN st
    ELSE IF n = 1 THEN ProjectionStep(pattern, endDate, st)
    ELSE Only({ProjectionSteps(pattern, endDate, s, n - (n \div 2)) :
                  s \in {ProjectionSteps(pattern, endDate, st, n \div 2)}})

\* the while loop for one pattern, followed for MaxIterations evaluations
ProjectPattern(pattern, endDate) ==
    ProjectionSteps(pattern, endDate,
                    [currentDate |-> pattern.nextOccurrence, emitted |-> <<>>,
                     returned |-> FALSE],
                    MaxIterations)

\* the for loop over the patterns
RECURSIVE ProjectPatterns(_, _, _)
ProjectPatterns(list, endDate, k) ==
    IF k > Len(list) THEN [emitted |-> <<>>, returned |-> TRUE]
    ELSE LET one == ProjectPattern(list[k], endDate)
             rest == ProjectPatterns(list, endDate, k + 1)
         IN IF one.returned
            THEN [emitted |-> one.emitted \o rest.emitted, returned |-> rest.returned]
            ELSE [emitted |-> one.emitted, returned |-> FALSE]

\* now stands for new Date()
projectFutureTransactions(list, monthsAhead, now) ==
    ProjectPatterns(list, addMonths(now, monthsAhead), 1)

\* Inputs of the detector
Txn(description, date, amount) ==
    [description |-> description, date |-> date, amount |-> amount]

\* the transaction id is the position in the list
WithTxnIds(list) ==
    [i \in DOMAIN list |->
        [id |-> i, description |-> list[i].description,
         date |-> list[i].date, amount |-> list[i].amount]]

\* "a", "A1" (normalizes to "a") and "1#" (normalizes to "")
GridDescriptions == { <<"a">>, <<"A", "1">>, <<"1", "#">> }

GridDates == { Day(2024, 1, 15), Day(2024, 2, 15), Day(2024, 3, 15) }

GridTransactions ==
    UNION {{WithTxnIds(l) :
              l \in [1..n -> [description : GridDescriptions, date : GridDates,
                              amount : {-10}]]} :
           n \in 0..MaxTransactions}

\* lists after __tests__/recurringDetection.test.ts and further lists: two
\* groups of different regularity, a group of two, word sets in another
\* order, a confidence of exactly 0.5 beside same-day duplicates,
\* descriptions without letters beside a monthly group, a description that
\* is similar to two groups, and two descriptions of similarity 3/5
ScenarioTransactions ==
    { WithTxnIds(<<Txn(<<"b">>, Day(2024, 1, 15), -16), Txn(<<"a">>, Day(2024, 4, 1), -5),
                   Txn(<<"b">>, Day(2024, 2, 15), -16), Txn(<<"a">>, Day(2024, 5, 1), -5),
                   Txn(<<"b">>, Day(2024, 3, 15), -16), Txn(<<"a">>, Day(2024, 5, 31), -6),
                   Txn(<<"c">>, Day(2024, 1, 1), -1), Txn(<<"c">>, Day(2024, 2, 1), -1)>>),
      WithTxnIds(<<Txn(<<"a">>, Day(2024, 1, 15), -16), Txn(<<"a">>, Day(2024, 2, 15), -16),
                   Txn(<<"a">>, Day(2024, 3, 15), -16), Txn(<<"a">>, Day(2024, 4, 15), -16)>>),
      WithTxnIds(<<Txn(<<"a">>, Day(2024, 1, 1), -20), Txn(<<"a">>, Day(2024, 1, 15), -20),
                   Txn(<<"a">>, Day(2024, 4, 1), -20), Txn(<<"a">>, Day(2024, 4, 5), -20)>>),
      WithTxnIds(<<Txn(<<"A", " ", " ", "B", "1">>, Day(2024, 1, 31), 3000),
                   Txn(<<"b", " ", "a">>, Day(2024, 2, 29), 3000),
                   Txn(<<" ", "a", "#", " ", "b">>, Day(2024, 3, 31), 3001)>>),
      WithTxnIds(<<Txn(<<"a">>, Day(2024, 1, 1), -9), Txn(<<"b">>, Day(2024, 1, 15), -10),
                   Txn(<<"a">>, Day(2024, 1, 4), -9), Txn(<<"b">>, Day(2024, 1, 15), -10),
                   Txn(<<"a">>, Day(2024, 1, 13), -9), Txn(<<"b">>, Day(2024, 1, 15), -10)>>),
      WithTxnIds(<<Txn(<<"1", "2">>, Day(2024, 1, 1), -10), Txn(<<"c">>, Day(2024, 12, 31), -7),
                   Txn(<<"2", "#">>, Day(2024, 2, 1), -10), Txn(<<"c">>, Day(2025, 1, 7), -7),
                   Txn(<<"#", " ">>, Day(2024, 3, 1), -10), Txn(<<"c">>, Day(2025, 1, 14), -7)>>),
      WithTxnIds(<<Txn(<<"a", " ", "b">>, Day(2024, 1, 15), -12),
                   Txn(<<"b", " ", "c">>, Day(2024, 1, 20), -12),
                   Txn(<<"a", " ", "b", " ", "c">>, Day(2024, 2, 15), -12),
                   Txn(<<"a", " ", "b">>, Day(2024, 3, 15), -12)>>),
      WithTxnIds(<<Txn(<<"a", " ", "b", " ", "c">>, Day(2024, 1, 15), -8),
                   Txn(<<"a", " ", "b", " ", "c", " ", "a", "a", " ", "b", "b">>,
                       Day(2024, 2, 15), -8),
                   Txn(<<"c", " ", "b", " ", "a">>, Day(2024, 3, 15), -8)>>) }

\* no detection was asked for
\* "a b c", "a b", "a b aa" and "A B1" (normalizes to "a b") in every order
PermutedTransactions ==
    LET descriptions == << <<"a", " ", "b", " ", "c">>, <<"a", " ", "b">>,
                           <<"a", " ", "b", " ", "a", "a">>, <<"A", " ", "B", "1">> >>
    IN { WithTxnIds([i \in 1..4 |-> Txn(descriptions[f[i]], Day(2024, i, 15), -5)]) :
           f \in Permutations(1..4) }

RecurringIdle ==
    /\ transactions = <<>>
    /\ patterns = <<>>

----------------------------------------------------------------------------
(* portfolioAllocation.ts *)
(*                                                                         *)
(* Percentages, the withdrawal rate, the age and the years until the first *)
(* withdrawal are rationals; a rational with denominator 0 is NaN.  A date *)
(* input is the whole number of years between it and today, or the empty   *)
(* string of the form before a date is picked: new Date('') is an invalid  *)
(* date and differenceInYears on it is NaN.                                *)

\* JavaScript a < b
RatLess(a, b) == ~IsNaNRat(a) /\ ~IsNaNRat(b) /\ a.num * b.den < b.num * a.den

\* Math.max(a, b)
RatMax(a, b) ==
    IF IsNaNRat(a) \/ IsNaNRat(b) THEN Rat(0, 0)
    ELSE IF RatLess(a, b) THEN b ELSE a

\* Math.min(a, b)
RatMin(a, b) ==
    IF IsNaNRat(a) \/ IsNaNRat(b) THEN Rat(0, 0)
    ELSE IF RatLess(b, a) THEN b ELSE a

\* Math.round(a): the integer nearest to a, halves towards +Infinity
MathRound(a) ==
    IF IsNaNRat(a) THEN Rat(0, 0)
    ELSE RatOfInt((2 * a.num + a.den) \div (2 * a.den))

\* Math.round(a / 5) * 5
RoundToFive(a) == RatMul(MathRound(RatDiv(a, RatOfInt(5))), RatOfInt(5))

\* cashPercentage = 100 - stockPercentage - bondPercentage
CashRemainder(stockPercentage, bondPercentage) ==
    RatSub(RatSub(RatOfInt(100), stockPercentage), bondPercentage)

\* an empty date string
NoDate == [given |-> FALSE, years |-> 0]

\* a date that lies the given number of whole years from today
DateAt(n) == [given |-> TRUE, years |-> n]

\* differenceInYears between today and a date input, in either direction
differenceInYears(date) ==
    IF date.given THEN RatOfInt(date.years) ELSE Rat(0, 0)

Band(stock, bond, cash, riskLevel, rationale) ==
    [stockPercentage |-> RatOfInt(stock), bondPercentage |-> RatOfInt(bond),
     cashPercentage |-> RatOfInt(cash), riskLevel |-> riskLevel,
     rationale |-> rationale]

\* the band of a holder who is already withdrawing
WithdrawingBand(age, yearsUntilWithdrawal) ==
    LET stockPercentage == RatMax(RatSub(RatOfInt(110), age), RatOfInt(40))
        bondPercentage ==
            RatMin(RatSub(RatOfInt(60), stockPercentage), RatOfInt(50))
    IN [stockPercentage |-> stockPercentage,
        bondPercentage |-> bondPercentage,
        cashPercentage |-> CashRemainder(stockPercentage, bondPercentage),
        riskLevel |-> "Conservative",
        rationale |->
            << IF yearsUntilWithdrawal = RatOfInt(0)
               THEN "start of withdrawal phase"
               ELSE "years into withdrawal phase",
               "growth assets against inflation", "stocks at this age" >>]

\* the rule table keyed on yearsUntilWithdrawal
BaselineAllocation(age, yearsUntilWithdrawal) ==
    IF RatLess(RatOfInt(20), yearsUntilWithdrawal)
    THEN Band(90, 10, 0, "Aggressive",
              <<"time to ride out volatility", "growth-focused">>)
    ELSE IF RatLess(RatOfInt(15), yearsUntilWithdrawal)
    THEN Band(80, 20, 0, "Growth",
              <<"good time for growth", "some stability">>)
    ELSE IF RatLess(RatOfInt(10), yearsUntilWithdrawal)
    THEN Band(70, 25, 5, "Balanced",
              <<"balanced approach", "adding bonds and cash">>)
    ELSE IF RatLess(RatOfInt(5), yearsUntilWithdrawal)
    THEN Band(60, 30, 10, "Moderate",
              <<"reducing equity risk", "building cash reserves">>)
    ELSE IF RatLess(RatOfInt(0), yearsUntilWithdrawal)
    THEN Band(50, 35, 15, "Moderate",
              <<"prioritizing stability", "increased cash">>)
    ELSE WithdrawingBand(age, yearsUntilWithdrawal)

\* the adjustment for withdrawal rates above 5
AdjustForWithdrawalRate(band, withdrawalRate) ==
    IF RatLess(RatOfInt(5), withdrawalRate)
    THEN LET adjustment ==
                 RatMin(RatOfInt(10), RatSub(withdrawalRate, RatOfInt(5)))
             half == RatDiv(adjustment, RatOfInt(2))
         IN [band EXCEPT
                !.stockPercentage =
                    RatMax(RatSub(band.stockPercentage, adjustment),
                           RatOfInt(30)),
                !.bondPercentage = RatAdd(band.bondPercentage, half),
                !.cashPercentage = RatAdd(band.cashPercentage, half),
                !.rationale = Append(band.rationale,
                                     "higher withdrawal rate")]
    ELSE band

\* the rounding to the nearest 5
RoundAllocation(band) ==
    LET stockPercentage == RoundToFive(band.stockPercentage)
        bondPercentage == RoundToFive(band.bondPercentage)
    IN [band EXCEPT
           !.stockPercentage = stockPercentage,
           !.bondPercentage = bondPercentage,
           !.cashPercentage =
               CashRemainder(stockPercentage, bondPercentage)]

determineAllocation(age, yearsUntilWithdrawal, withdrawalRate) ==
    RoundAllocation(
        AdjustForWithdrawalRate(BaselineAllocation(age, yearsUntilWithdrawal),
                                withdrawalRate))

\* portfolioAmount * (percentage / 100)
AmountOf(portfolioAmount, percentage) ==
    RatMul(RatOfInt(portfolioAmount), RatDiv(percentage, RatOfInt(100)))

Allocation(assetClass, percentage, portfolioAmount) ==
    [assetClass |-> assetClass, percentage |-> percentage,
     amount |-> AmountOf(portfolioAmount, percentage)]

\* an entry of the recommendations; the expense ratio in hundredths of a
\* percent
ETF(ticker, percentage, portfolioAmount, expenseRatio) ==
    [ticker |-> ticker, percentage |-> percentage,
     amount |-> AmountOf(portfolioAmount, percentage),
     expenseRatio |-> expenseRatio]

generateETFRecommendations(usStockPct, intlStockPct, bondPct, cashPct, portfolioAmount, yearsUntilWithdrawal) ==
    LET usStocks ==
            IF RatLess(RatOfInt(0), usStockPct)
            THEN <<ETF("SCHB", usStockPct, portfolioAmount, 3)>>
            ELSE <<>>
        intlStocks ==
            IF RatLess(RatOfInt(0), intlStockPct)
            THEN <<ETF("VXUS", intlStockPct, portfolioAmount, 8)>>
            ELSE <<>>
        bonds ==
            IF RatLess(RatOfInt(0), bondPct)
            THEN IF RatLess(yearsUntilWithdrawal, RatOfInt(5))
                 THEN << ETF("BND", RatMul(bondPct, Rat(60, 100)),
                             portfolioAmount, 3),
                         ETF("VGSH", RatMul(bondPct, Rat(40, 100)),
                             portfolioAmount, 4) >>
                 ELSE <<ETF("SCHZ", bondPct, portfolioAmount, 4)>>
            ELSE <<>>
        cash ==
            IF RatLess(RatOfInt(0), cashPct)
            THEN <<ETF("CASH", cashPct, portfolioAmount, 0)>>
            ELSE <<>>
    IN usStocks \o intlStocks \o bonds \o cash

\* a variant that divides by the portfolio amount whatever it is
WithdrawalRateUnguarded(inputs) ==
    RatMul(Rat(inputs.annualWithdrawal, inputs.portfolioAmount), RatOfInt(100))

\* (annualWithdrawal / portfolioAmount) * 100, or 0 without a portfolio
WithdrawalRate(inputs) ==
    IF inputs.portfolioAmount > 0
    THEN RatMul(Rat(inputs.annualWithdrawal, inputs.portfolioAmount),
                RatOfInt(100))
    ELSE RatOfInt(0)

calculatePortfolioAllocation(inputs) ==
    LET age == differenceInYears(inputs.birthdate)
        yearsUntilWithdrawal == differenceInYears(inputs.firstWithdrawalDate)
        withdrawalRate == WithdrawalRate(inputs)
        chosen == determineAllocation(age, yearsUntilWithdrawal, withdrawalRate)
        usStockPercentage == RatMul(chosen.stockPercentage, Rat(70, 100))
        intlStockPercentage == RatMul(chosen.stockPercentage, Rat(30, 100))
        isSustainable == RatLeq(withdrawalRate, Rat(45, 10))
    IN [allocations |->
            << Allocation("US Stocks", usStockPercentage,
                          inputs.portfolioAmount),
               Allocation("International Stocks", intlStockPercentage,
                          inputs.portfolioAmount),
               Allocation("Bonds", chosen.bondPercentage,
                          inputs.portfolioAmount) >>
            \o (IF RatLess(RatOfInt(0), chosen.cashPercentage)
                THEN <<Allocation("Cash", chosen.cashPercentage,
                                  inputs.portfolioAmount)>>
                ELSE <<>>),
        etfRecommendations |->
            generateETFRecommendations(usStockPercentage, intlStockPercentage,
                                       chosen.bondPercentage,
                                       chosen.cashPercentage,
                                       inputs.portfolioAmount,
                                       yearsUntilWithdrawal),
        rationale |->
            IF isSustainable THEN chosen.rationale
            ELSE Append(chosen.rationale, "exceeds the 4% rule"),
        riskLevel |-> chosen.riskLevel,
        withdrawalRate |-> withdrawalRate,
        isSustainable |-> isSustainable]

----------------------------------------------------------------------------
(* Inputs of the portfolio allocation *)

\* the ages of the holder, in whole years
Ages == {0, 30, 50, 67, 68, 70, 90}

\* the whole years until the first withdrawal, negative once it has started
WithdrawalHorizons == {-2, 0, 1, 5, 6, 10, 11, 15, 16, 20, 21}

\* a zero portfolio, and two on which withdrawals are multiples of 2.5 and of
\* 0.5 percent
PortfolioAmounts == {0, 40, 200}

PortfolioInputSets ==
    [birthdate : {NoDate} \cup {DateAt(n) : n \in Ages},
     firstWithdrawalDate : {NoDate} \cup {DateAt(n) : n \in WithdrawalHorizons},
     annualWithdrawal : 0..MaxAnnualWithdrawal,
     portfolioAmount : PortfolioAmounts]

NoPortfolioInputs ==
    [birthdate |-> NoDate, firstWithdrawalDate |-> NoDate,
     annualWithdrawal |-> 0, portfolioAmount |-> 0]

NoRecommendation ==
    [allocations |-> <<>>, etfRecommendations |-> <<>>, rationale |-> <<>>,
     riskLevel |-> "none", withdrawalRate |-> RatOfInt(0),
     isSustainable |-> FALSE]

AllocationIdle ==
    /\ portfolioInputs = NoPortfolioInputs
    /\ recommendation = NoRecommendation

----------------------------------------------------------------------------
(* Inputs of detectFrequency *)

\* day gaps on and beside the edges of the five bands
GapValues ==
    {4, 5, 7, 9, 10, 11, 14, 17, 18, 24, 25, 30, 35, 36, 74, 75, 90, 105, 106,
     334, 335, 336, 365, 395, 396}

IntervalLists == UNION {[1..n -> GapValues] : n \in 0..MaxIntervals}

\* detectFrequency was not called
FrequencyIdle ==
    /\ dayGaps = <<>>
    /\ gapFrequency = "none"

(* Inputs of projectFutureTransactions *)

Frequencies == {"weekly", "biweekly", "monthly", "quarterly", "yearly"}

\* days at the end of a month, a leap day, and days before and after the horizons
NextOccurrences ==
    { Day(2023, 12, 31), Day(2024, 1, 31), Day(2024, 2, 29), Day(2024, 3, 1),
      Day(2024, 4, 30), Day(2025, 6, 1) }

Nows == { Day(2024, 1, 31), Day(2024, 2, 29), Day(2024, 12, 15) }

Pattern(description, frequency, averageAmount, nextOccurrence) ==
    [description |-> description, frequency |-> frequency,
     averageAmount |-> averageAmount,
     transactions |-> WithTxnIds(<<Txn(description, Day(2023, 12, 1), -10)>>),
     relativeVariance |-> RatOfInt(0), nextOccurrence |-> nextOccurrence]

SinglePatterns ==
    { Pattern(<<"a">>, f, Rat(-31, 3), d) : f \in Frequencies, d \in NextOccurrences }

ListedPatterns ==
    { Pattern(<<"a">>, "monthly", RatOfInt(-10), Day(2024, 1, 31)),
      Pattern(<<"b">>, "weekly", RatOfInt(25), Day(2024, 2, 29)),
      Pattern(<<"a">>, "yearly", RatOfInt(-99), Day(2025, 6, 1)) }

PatternLists ==
    { <<>> }
      \cup { <<p>> : p \in SinglePatterns }
      \cup UNION { [1..n -> ListedPatterns] : n \in 1..MaxForecastPatterns }
      \cup { detectRecurringTransactions(t) : t \in ScenarioTransactions }

MonthsAhead == {-1} \cup 0..MaxMonthsAhead

NoForecastArgs == [patterns |-> <<>>, monthsAhead |-> 0, now |-> Day(2024, 1, 1)]

\* projectFutureTransactions was not called
ForecastIdle ==
    /\ forecastArgs = NoForecastArgs
    /\ projected = <<>>

----------------------------------------------------------------------------
(* Specification of the debt payoff engine *)

Init ==
    /\ pc = "ready"
    /\ \E input \in GridInputs \cup TestInputs \cup ScenarioInputs :
          /\ liabilities = input.debts
          /\ extraPayment = input.extra
    /\ avalanche = NoResult
    /\ snowball = NoResult
    /\ comparison = NoComparison
    /\ params = NoParams
    /\ allPaths = <<>>
    /\ mcResult = NoMonteCarloResult
    /\ secondResult = NoMonteCarloResult
    /\ ProjectionIdle
    /\ RecurringIdle
    /\ AllocationIdle
    /\ FrequencyIdle
    /\ ForecastIdle

\* compareStrategies, first call: calculateAvalanche(liabilities, extraPayment)
CalculateAvalanche ==
    /\ pc = "ready"
    /\ LET r == calculateAvalanche(liabilities, extraPayment)
       IN /\ ~r.aborted
          /\ avalanche' = r
    /\ pc' = "avalanche"
    /\ UNCHANGED <<liabilities, extraPayment, snowball, comparison, nonDebtVars>>

\* compareStrategies, second call: calculateSnowball(liabilities, extraPayment)
CalculateSnowball ==
    /\ pc = "avalanche"
    /\ LET r == calculateSnowball(liabilities, extraPayment)
       IN /\ ~r.aborted
          /\ snowball' = r
    /\ pc' = "snowball"
    /\ UNCHANGED <<liabilities, extraPayment, avalanche, comparison, nonDebtVars>>

\* compareStrategies, the returned savings
CompareStrategies ==
    /\ pc = "snowball"
    /\ comparison' =
          [done |-> TRUE,
           interestSavings |-> snowball.totalInterest - avalanche.totalInterest,
           timeSavings |-> NumMinus(snowball.totalMonths, avalanche.totalMonths)]
    /\ pc' = "compared"
    /\ UNCHANGED <<liabilities, extraPayment, avalanche, snowball, nonDebtVars>>

Next ==
    \/ CalculateAvalanche
    \/ CalculateSnowball
    \/ CompareStrategies

Spec == Init /\ [][Next]_vars

----------------------------------------------------------------------------
(* Reading a DebtPayoffResult *)

\* the results returned so far
Results == {r \in {avalanche, snowball} : r.strategy # "none"}

\* the payments of the debt at position i of the priority order
Payments(r, i) ==
    IF i <= Len(r.debts) /\ r.debts[i].defined THEN r.debts[i].payments ELSE <<>>

Scheduled(r) == {i \in DOMAIN r.debts : r.debts[i].defined}

\* balance of debt i when month m starts
StartBalance(r, i, m) ==
    IF m = 1 THEN Abs(r.order[i].balance)
    ELSE IF m - 1 <= Len(Payments(r, i)) THEN Payments(r, i)[m - 1].balance
    ELSE 0

Owing(r, i, m) == StartBalance(r, i, m) > 0

OwingIn(r, m) == {i \in DOMAIN r.order : Owing(r, i, m)}

IsFirstOwing(r, i, m) == Owing(r, i, m) /\ \A j \in OwingIn(r, m) : i <= j

\* the owing debt visited just before j in month m
PrevOwing(r, j, m) == CHOOSE i \in OwingIn(r, m) :
    i < j /\ \A k \in OwingIn(r, m) : k < j => k <= i

\* extraMonthlyPayment + minimums of the debts with no balance left at the
\* start of month m
PoolAtStart(r, m) ==
    extraPayment +
    SumSeq([i \in DOMAIN r.order |->
              IF Owing(r, i, m) THEN 0 ELSE r.order[i].minimumPayment])

\* what debt j is offered in month m: its minimum plus the pool as it
\* stands when j is visited
RECURSIVE Offered(_, _, _)
Offered(r, j, m) ==
    r.order[j].minimumPayment +
    (IF IsFirstOwing(r, j, m) THEN PoolAtStart(r, m)
     ELSE LET i == PrevOwing(r, j, m)
          IN Offered(r, i, m) - Payments(r, i)[m].payment)

\* balance + interest of debt i in month m
Payoff(r, i, m) == StartBalance(r, i, m) + Payments(r, i)[m].interest

IsPermutation(a, b) ==
    /\ Len(a) = Len(b)
    /\ \A x \in Range(a) \cup Range(b) :
         Cardinality({i \in DOMAIN a : a[i] = x}) =
         Cardinality({i \in DOMAIN b : b[i] = x})

----------------------------------------------------------------------------
(* Claims on the debt payoff engine *)

\* C1: for every debt list and every extra payment >= 0, the avalanche
\* run's totalInterest is <= the snowball run's totalInterest, that is
\* compareStrategies(...).interestSavings >= 0.
C1_AvalancheInterestAtMostSnowball ==
    comparison.done =>
        /\ avalanche.totalInterest <= snowball.totalInterest
        /\ comparison.interestSavings >= 0

\* C2: the last entry of every per-debt schedule has balance exactly 0,
\* unless the simulation stopped at the 600-month ceiling.
C2_FinalBalanceZeroUnlessCeiling ==
    \A r \in Results : \A i \in Scheduled(r) :
        \/ Payments(r, i)[Len(Payments(r, i))].balance = 0
        \/ r.months = SafetyLimit

C2_Witness ==
    \E r \in Results :
        /\ r.months >= 2
        /\ r.months < SafetyLimit
        /\ Cardinality(Scheduled(r)) >= 2
        /\ \A i \in Scheduled(r) : Payments(r, i)[Len(Payments(r, i))].balance = 0
        /\ \E i \in Scheduled(r) : Len(Payments(r, i)) < r.months

\* C3: the simulation ends after at most 600 months and returns
\* totalMonths <= 600; a debt that is never paid off has its schedule cut at
\* month 600 with its last recorded balance still > 0.
C3_ReturnsWithinSafetyLimit ==
    \A r \in Results :
        /\ r.months <= SafetyLimit
        /\ NumLeq(r.totalMonths, Num(SafetyLimit))
        /\ \A i \in Scheduled(r) :
             Payments(r, i)[Len(Payments(r, i))].balance > 0 =>
                 Len(Payments(r, i)) = SafetyLimit

\* C4: debts are visited in the strategy's order (avalanche: descending
\* interest rate, snowball: ascending balance); the first debt still owing
\* receives its minimum plus the whole pool, and every later debt only its
\* minimum plus what an earlier capped payment returned.
C4_PoolGoesToFirstOwingDebt ==
    \A r \in Results :
        /\ IsPermutation(r.order, liabilities)
        /\ \A i, j \in DOMAIN r.order :
             i < j => IF r.strategy = "avalanche"
                      THEN r.order[i].interestRate >= r.order[j].interestRate
                      ELSE Abs(r.order[i].balance) <= Abs(r.order[j].balance)
        /\ \A m \in 1..r.months : \A j \in OwingIn(r, m) :
             /\ Len(Payments(r, j)) >= m
             /\ Payments(r, j)[m].payment = Min(Offered(r, j, m), Payoff(r, j, m))
             /\ ~IsFirstOwing(r, j, m) =>
                  LET i == PrevOwing(r, j, m)
                  IN (Payments(r, i)[m].payment < Payoff(r, i, m)) =>
                        Payments(r, j)[m].payment <= r.order[j].minimumPayment

C4_Witness ==
    \E r \in Results : \E m \in 1..r.months : \E i, j \in OwingIn(r, m) :
        /\ IsFirstOwing(r, i, m)
        /\ i < j
        /\ PoolAtStart(r, m) > 0
        /\ Payments(r, i)[m].payment = r.order[i].minimumPayment + PoolAtStart(r, m)
        /\ Payments(r, j)[m].payment = r.order[j].minimumPayment
        /\ Payments(r, j)[m].payment < Payoff(r, j, m)

\* C5: when the payment computed for a debt exceeds its balance plus this
\* month's interest, the excess is applied to the next debt still owing in
\* the same month.
C5_ExcessCascadesWithinMonth ==
    \A r \in Results : \A m \in 1..r.months : \A j \in OwingIn(r, m) :
        ~IsFirstOwing(r, j, m) =>
            LET i == PrevOwing(r, j, m)
                excess == Offered(r, i, m) - Payoff(r, i, m)
            IN excess > 0 =>
                 /\ Payments(r, i)[m].payment = Payoff(r, i, m)
                 /\ Payments(r, j)[m].month = Payments(r, i)[m].month
                 /\ Payments(r, j)[m].payment =
                      Min(r.order[j].minimumPayment + excess, Payoff(r, j, m))

\* the test "cascades excess payment when debt is nearly paid off"
C5_Witness ==
    /\ snowball.strategy = "snowball"
    /\ Len(snowball.order) = 2
    /\ Abs(snowball.order[1].balance) = 30
    /\ Abs(snowball.order[2].balance) = 200
    /\ Len(Payments(snowball, 1)) = 1
    /\ Payments(snowball, 1)[1].payment = 30
    /\ Payments(snowball, 2)[1].payment = 70

\* C6: at the start of every month the pool is extraMonthlyPayment plus the
\* minimums of the debts already at balance 0, so the freed minimum of a
\* paid-off debt reaches the remaining debts in every later month.
C6_FreedMinimumsJoinPool ==
    \A r \in Results : \A m \in 1..r.months : \A f \in OwingIn(r, m) :
        IsFirstOwing(r, f, m) =>
            /\ Payments(r, f)[m].payment =
                 Min(r.order[f].minimumPayment + PoolAtStart(r, m), Payoff(r, f, m))
            /\ \A k \in Scheduled(r) :
                 (r.debts[k].payoffDate > 0 /\ r.debts[k].payoffDate < m) =>
                     Payments(r, f)[m].payment >=
                        Min(r.order[f].minimumPayment + extraPayment
                              + r.order[k].minimumPayment, Payoff(r, f, m))

\* the test "cascades freed minimum payments to next debt"
C6_Witness ==
    /\ snowball.strategy = "snowball"
    /\ Len(snowball.order) = 2
    /\ Abs(snowball.order[1].balance) = 100
    /\ Abs(snowball.order[2].balance) = 1000
    /\ Len(Payments(snowball, 1)) = 2
    /\ Len(Payments(snowball, 2)) = 11
    /\ Payments(snowball, 2)[2].payment = 50
    /\ Payments(snowball, 2)[3].payment = 100

\* C7: in every month every debt with a balance > 0 at the start of the
\* month is paid at least its own minimum, or its whole balance plus
\* interest when that is smaller, wherever it stands in the order.
C7_EveryOwingDebtGetsItsMinimum ==
    \A r \in Results : \A m \in 1..r.months : \A i \in OwingIn(r, m) :
        /\ Len(Payments(r, i)) >= m
        /\ Payments(r, i)[m].month = m
        /\ Payments(r, i)[m].payment >=
             Min(r.order[i].minimumPayment, Payoff(r, i, m))

C7_Witness ==
    \E r \in Results : \E m \in 1..r.months : \E i, j \in OwingIn(r, m) :
        /\ i < j
        /\ PoolAtStart(r, m) > 0
        /\ Payments(r, i)[m].payment < Payoff(r, i, m)
        /\ r.order[j].minimumPayment > 0
        /\ Payments(r, j)[m].payment = r.order[j].minimumPayment

\* C8: no entry overpays: each payment is <= the balance at the start of
\* the month plus the month's interest and no balance is negative; balance
\* 120, minimum 100, 0%, no extra pays 100 then 20, totalPaid 120.
C8_NoOverpayment ==
    \A r \in Results :
        /\ \A i \in Scheduled(r) : \A m \in DOMAIN Payments(r, i) :
             /\ Payments(r, i)[m].payment <= Payoff(r, i, m)
             /\ Payments(r, i)[m].balance >= 0
             /\ Payments(r, i)[m].balance =
                  Payoff(r, i, m) - Payments(r, i)[m].payment
        /\ (Len(r.order) = 1 /\ Abs(r.order[1].balance) = 120 /\ extraPayment = 0
            /\ r.order[1].interestRate = 0 /\ r.order[1].minimumPayment = 100) =>
               /\ [m \in DOMAIN Payments(r, 1) |-> Payments(r, 1)[m].payment]
                     = <<100, 20>>
               /\ r.totalPaid = 120

\* the test "does not overpay on the last payment"
C8_Witness ==
    /\ avalanche.strategy = "avalanche"
    /\ Len(avalanche.order) = 1
    /\ Abs(avalanche.order[1].balance) = 120
    /\ Len(Payments(avalanche, 1)) = 2
    /\ Payments(avalanche, 1)[2].payment = 20
    /\ avalanche.totalPaid = 120

\* C9: for every debt list, also with a debt of balance 0 and for the
\* empty list, totalMonths is the length of the longest per-debt schedule
\* (0 without schedules) and totalInterest / totalPaid are the sums of
\* interest / payment over all entries.
C9_TotalsMatchSchedules ==
    \A r \in Results :
        /\ r.totalMonths =
             Num(IF Scheduled(r) = {} THEN 0
                 ELSE CHOOSE n \in {Len(Payments(r, i)) : i \in Scheduled(r)} :
                        \A i \in Scheduled(r) : Len(Payments(r, i)) <= n)
        /\ r.totalInterest =
             SumSeq([i \in DOMAIN r.debts |->
                       SumSeq([m \in DOMAIN Payments(r, i) |-> Payments(r, i)[m].interest])])
        /\ r.totalPaid =
             SumSeq([i \in DOMAIN r.debts |->
                       SumSeq([m \in DOMAIN Payments(r, i) |-> Payments(r, i)[m].payment])])

----------------------------------------------------------------------------
(* Specification of the Monte Carlo simulator *)

MCInit ==
    /\ pc = "ready"
    /\ params \in ParamSets
    /\ allPaths = <<>>
    /\ mcResult = NoMonteCarloResult
    /\ secondResult = NoMonteCarloResult
    /\ ProjectionIdle
    /\ RecurringIdle
    /\ AllocationIdle
    /\ FrequencyIdle
    /\ ForecastIdle
    /\ liabilities = <<>>
    /\ extraPayment = 0
    /\ avalanche = NoResult
    /\ snowball = NoResult
    /\ comparison = NoComparison

\* runMonteCarloSimulation with annualVolatility = 0; the compounding stays
\* within the integers of the model
RunDeterministic ==
    /\ pc = "ready"
    /\ params.annualVolatility = 0
    /\ WithinIntegers(params)
    /\ mcResult' = runDeterministicSimulation(params)
    /\ pc' = "simulated"
    /\ UNCHANGED <<params, allPaths, secondResult, nonMonteCarloVars>>

\* runMonteCarloSimulation with annualVolatility # 0: numSimulations paths
\* are simulated on Math.random, then the statistics are taken
RunStochastic ==
    /\ pc = "ready"
    /\ params.annualVolatility # 0
    /\ \E draws \in [1..params.numSimulations -> [1..params.years -> YearDraws]] :
          LET paths == [sim \in 1..params.numSimulations |->
                          simulatePath(params.initialValue,
                                       params.monthlyContribution,
                                       params.years, draws[sim])]
          IN /\ allPaths' = paths
             /\ mcResult' = MonteCarloStatistics(params, allPaths')
    /\ pc' = "simulated"
    /\ UNCHANGED <<params, secondResult, nonMonteCarloVars>>

MCNext ==
    \/ RunDeterministic
    \/ RunStochastic

SpecMonteCarlo == MCInit /\ [][MCNext]_vars

----------------------------------------------------------------------------
(* Claims on the Monte Carlo simulator *)

\* C10: in every year band returned by runMonteCarloSimulation, for all
\* parameter sets and with or without inflation adjustment,
\* p10 <= p25 <= p50 <= p75 <= p90.
C10_PercentilesOrdered ==
    mcResult.done =>
        \A y \in DOMAIN mcResult.yearlyData :
            LET d == mcResult.yearlyData[y]
            IN /\ RatLeq(d.p10, d.p25)
               /\ RatLeq(d.p25, d.p50)
               /\ RatLeq(d.p50, d.p75)
               /\ RatLeq(d.p75, d.p90)

\* three paths with different values in a year, adjusted for inflation
C10_Witness ==
    /\ mcResult.done
    /\ params.annualVolatility # 0
    /\ params.inflationRate > 0
    /\ Len(allPaths) = 3
    /\ \E y \in DOMAIN mcResult.yearlyData :
          LET d == mcResult.yearlyData[y]
          IN /\ d.p10 # d.p25
             /\ d.p25 # d.p50
             /\ d.p50 # d.p75
             /\ d.p75 # d.p90
             /\ allPaths[1][y] > allPaths[2][y]

\* C11: with annualVolatility = 0 no path is simulated on random numbers and
\* one deterministic path is run: in every year the five percentiles are the
\* same value, and probabilityOfDoubling and probabilityOfLoss are 0 or 1.
C11_ZeroVolatilityIsDeterministic ==
    (mcResult.done /\ params.annualVolatility = 0) =>
        /\ allPaths = <<>>
        /\ Len(mcResult.finalValues) = 1
        /\ Len(mcResult.yearlyData) = params.years
        /\ \A y \in DOMAIN mcResult.yearlyData :
              LET d == mcResult.yearlyData[y]
              IN /\ ~IsNaNRat(d.p50)
                 /\ d.p10 = d.p50 /\ d.p25 = d.p50
                 /\ d.p75 = d.p50 /\ d.p90 = d.p50
        /\ mcResult.probabilityOfDoubling \in {RatOfInt(0), RatOfInt(1)}
        /\ mcResult.probabilityOfLoss \in {RatOfInt(0), RatOfInt(1)}

\* a zero-volatility run that grows, is adjusted for inflation and doubles
C11_Witness ==
    /\ mcResult.done
    /\ params.annualVolatility = 0
    /\ params.annualReturn > 0
    /\ params.inflationRate > 0
    /\ params.numSimulations > 1
    /\ mcResult.probabilityOfDoubling = RatOfInt(1)
    /\ mcResult.probabilityOfLoss = RatOfInt(0)
    /\ mcResult.yearlyData[1].p50 # RatOfInt(mcResult.finalValues[1])

\* the result of the same call on the same path values without inflation
NominalResult ==
    IF params.annualVolatility = 0
    THEN runDeterministicSimulation([params EXCEPT !.inflationRate = 0])
    ELSE MonteCarloStatistics([params EXCEPT !.inflationRate = 0], allPaths)

\* the nominal contributions over all years
TotalNominalContributions ==
    params.initialValue
      + params.monthlyContribution * MonthsPerYear * params.years

\* the fraction of the final values that satisfy Test
FractionOfFinalValues(Test(_)) ==
    Rat(Cardinality({i \in DOMAIN mcResult.finalValues : Test(mcResult.finalValues[i])}),
        Len(mcResult.finalValues))

\* band d is band nominal divided by (1 + inflation)^year
IsDeflated(d, nominal, inflationRate) ==
    LET factor == InflationFactor(inflationRate, nominal.year)
    IN /\ d.year = nominal.year
       /\ d.p10 = RatDiv(nominal.p10, factor)
       /\ d.p25 = RatDiv(nominal.p25, factor)
       /\ d.p50 = RatDiv(nominal.p50, factor)
       /\ d.p75 = RatDiv(nominal.p75, factor)
       /\ d.p90 = RatDiv(nominal.p90, factor)
       /\ d.contributions = RatDiv(nominal.contributions, factor)

----------------------------------------------------------------------------
(* Specification of two calls of runMonteCarloSimulation *)

\* parameter sets of the repeated call: one year, few paths
RepeatParamSets ==
    {ps \in ParamSets : ps.years = 1 /\ ps.numSimulations <= MaxRepeatedSimulations}

RepeatInit ==
    /\ MCInit
    /\ params \in RepeatParamSets

\* runMonteCarloSimulation(params) called a second time by the same caller.
\* The function takes params only and calls simulatePath without an rng
\* argument, so the draws of this call come from Math.random again, whatever
\* uniform source the caller holds.
RunAgain ==
    /\ pc = "simulated"
    /\ IF params.annualVolatility = 0
       THEN secondResult' = runDeterministicSimulation(params)
       ELSE \E draws \in [1..params.numSimulations -> [1..params.years -> YearDraws]] :
               secondResult' =
                  MonteCarloStatistics(params,
                     [sim \in 1..params.numSimulations |->
                         simulatePath(params.initialValue,
                                      params.monthlyContribution,
                                      params.years, draws[sim])])
    /\ pc' = "repeated"
    /\ UNCHANGED <<params, allPaths, mcResult, nonMonteCarloVars>>

RepeatNext ==
    \/ RunDeterministic
    \/ RunStochastic
    \/ RunAgain

SpecRepeatedRuns == RepeatInit /\ [][RepeatNext]_vars

\* C12: two runs of the full simulation with the same parameters and the
\* same injected uniform source return the same MonteCarloResult.
C12_SameSourceSameResult ==
    pc = "repeated" => secondResult = mcResult

----------------------------------------------------------------------------
(* Specification of the investment projection *)

ProjectionInit ==
    /\ pc = "ready"
    /\ projectionArgs \in ProjectionArgSets
    /\ projection = NoProjection
    /\ DebtIdle
    /\ MonteCarloIdle
    /\ RecurringIdle
    /\ AllocationIdle
    /\ FrequencyIdle
    /\ ForecastIdle

CalculateProjection ==
    /\ pc = "ready"
    /\ projection' = calculateInvestmentProjection(projectionArgs)
    /\ pc' = "projected"
    /\ UNCHANGED <<projectionArgs, nonProjectionVars>>

ProjectionNext == CalculateProjection

SpecProjection == ProjectionInit /\ [][ProjectionNext]_vars

\* C14: with annualReturn = 0 calculateInvestmentProjection divides nothing
\* by zero and returns futureValue = initial value + monthlyContribution x 12
\* x years = totalContributions and investmentGains = 0, for every inflation
\* rate; without contributions futureValue is the initial value.
C14_ZeroReturnIsLinear ==
    (projection.done /\ projectionArgs.annualReturn = 0) =>
        LET a == projectionArgs
        IN /\ ~IsNaNRat(projection.futureValue)
           /\ projection.futureValue =
                 RatOfInt(a.portfolioValue
                            + a.monthlyContribution * MonthsPerYear * a.years)
           /\ projection.futureValue = projection.totalContributions
           /\ projection.investmentGains = RatOfInt(0)
           /\ (a.monthlyContribution = 0 =>
                 projection.futureValue = RatOfInt(a.portfolioValue))

\* a zero-return projection with contributions and inflation
C14_Witness ==
    /\ projection.done
    /\ projectionArgs.annualReturn = 0
    /\ projectionArgs.monthlyContribution > 0
    /\ projectionArgs.portfolioValue > 0
    /\ projectionArgs.inflationRate > 0
    /\ projection.realValue # projection.futureValue

----------------------------------------------------------------------------
(* Specification of the recurring pattern detector *)

RecurringInit ==
    /\ pc = "ready"
    /\ transactions \in GridTransactions \cup ScenarioTransactions \cup PermutedTransactions
    /\ patterns = <<>>
    /\ DebtIdle
    /\ MonteCarloIdle
    /\ ProjectionIdle
    /\ AllocationIdle
    /\ FrequencyIdle
    /\ ForecastIdle

DetectRecurring ==
    /\ pc = "ready"
    /\ patterns' = detectRecurringTransactions(transactions)
    /\ pc' = "detected"
    /\ UNCHANGED <<transactions, nonRecurringVars>>

RecurringNext == DetectRecurring

SpecRecurring == RecurringInit /\ [][RecurringNext]_vars

----------------------------------------------------------------------------
(* Claims on the recurring pattern detector *)

\* the groups built from the input list
Groups == groupBySimilarDescription(transactions)

\* the returned patterns whose description is key
PatternsOf(key) == {i \in DOMAIN patterns : patterns[i].description = key}

\* the description holds no letter: only digits, symbols and spaces
HasNoLetter(desc) ==
    \A i \in DOMAIN desc : desc[i] \notin LowerLetters \cup UpperLetters

\* the day gaps between the transactions of a list taken in date order
DayGaps(txns) ==
    LET sorted == StableSort(txns, [t \in Range(txns) |-> DayNumber(t.date)])
    IN [i \in 1..(Len(sorted) - 1) |->
           DayNumber(sorted[i + 1].date) - DayNumber(sorted[i].date)]

\* C15: every pattern returned by detectRecurringTransactions has at least
\* 3 matched transactions; a description group with fewer than 3 members
\* never produces a pattern.
C15_AtLeastThreeOccurrences ==
    pc = "detected" =>
        /\ \A i \in DOMAIN patterns : Len(patterns[i].transactions) >= 3
        /\ \A g \in DOMAIN Groups :
              Len(Groups[g].txns) < 3 => PatternsOf(Groups[g].key) = {}

\* a pattern is returned while a regular group of two is left out
C15_Witness ==
    /\ pc = "detected"
    /\ patterns # <<>>
    /\ \E g \in DOMAIN Groups :
          /\ Len(Groups[g].txns) = 2
          /\ detectFrequency(DayGaps(Groups[g].txns)) = "monthly"
          /\ PatternsOf(Groups[g].key) = {}

\* C16: a transaction whose description normalizes to the empty string (only
\* digits and symbols) is discarded before grouping: it is never among the
\* matched transactions of a returned pattern, for any input list.
C16_NoLetterNeverMatched ==
    pc = "detected" =>
        \A i \in DOMAIN patterns :
            \A k \in DOMAIN patterns[i].transactions :
                ~HasNoLetter(patterns[i].transactions[k].description)

\* three monthly transactions without letters beside a returned pattern
C16_Witness ==
    /\ pc = "detected"
    /\ Len(patterns) = 1
    /\ LET bare == SelectSeq(transactions, LAMBDA t : HasNoLetter(t.description))
       IN /\ Len(bare) = 3
          /\ detectFrequency(DayGaps(bare)) = "monthly"

\* C17: a group whose transactions all fall on the same date (mean gap 0) is
\* dropped, and every returned pattern has a finite confidence with
\* 0.5 <= confidence <= 1, that is a relative variance v = (1 - confidence)^2
\* with 0 <= v <= 1/4.
C17_ConfidenceFiniteAndReasonable ==
    pc = "detected" =>
        /\ \A i \in DOMAIN patterns :
              /\ ~IsNaNRat(patterns[i].relativeVariance)
              /\ RatLeq(RatOfInt(0), patterns[i].relativeVariance)
              /\ RatLeq(patterns[i].relativeVariance, Rat(1, 4))
        /\ \A g \in DOMAIN Groups :
              (\A a, b \in Range(Groups[g].txns) : a.date = b.date)
                 => PatternsOf(Groups[g].key) = {}

\* three same-day duplicates are dropped beside a pattern whose confidence
\* is exactly 0.5
C17_Witness ==
    /\ pc = "detected"
    /\ \E g \in DOMAIN Groups :
          /\ Len(Groups[g].txns) >= 3
          /\ \A a, b \in Range(Groups[g].txns) : a.date = b.date
          /\ PatternsOf(Groups[g].key) = {}
    /\ \E i \in DOMAIN patterns : patterns[i].relativeVariance = Rat(1, 4)

\* the members of group g have one normalized description and are a
\* calendar month apart
IsMonthlyGroup(g) ==
    /\ Len(Groups[g].txns) >= 3
    /\ \A a, b \in Range(Groups[g].txns) :
          normalizeDescription(a.description) = normalizeDescription(b.description)
    /\ \A i \in DOMAIN DayGaps(Groups[g].txns) :
          DayGaps(Groups[g].txns)[i] \in 28..31

\* C18: three or more transactions with identical normalized description
\* that are one calendar month apart (day gaps of 28 to 31 days) are
\* returned as one pattern with frequency monthly and confidence > 0.9
\* (relative variance < 1/100).
C18_MonthlyDetected ==
    pc = "detected" =>
        \A g \in DOMAIN Groups :
            IsMonthlyGroup(g) =>
                /\ Cardinality(PatternsOf(Groups[g].key)) = 1
                /\ \A i \in PatternsOf(Groups[g].key) :
                      /\ patterns[i].frequency = "monthly"
                      /\ RatLeq(patterns[i].relativeVariance, Rat(1, 100))
                      /\ patterns[i].relativeVariance # Rat(1, 100)
                      /\ IsPermutation(patterns[i].transactions, Groups[g].txns)

\* four transactions with gaps of 31, 29 and 31 days
C18_Witness ==
    /\ pc = "detected"
    /\ \E g \in DOMAIN Groups :
          /\ IsMonthlyGroup(g)
          /\ Len(Groups[g].txns) = 4
          /\ DayGaps(Groups[g].txns) = <<31, 29, 31>>
    /\ Len(patterns) = 1
    /\ patterns[1].nextOccurrence = Day(2024, 5, 15)

\* C19: the list returned by detectRecurringTransactions is sorted by
\* confidence in non-increasing order, for every input list.
C19_SortedByConfidence ==
    pc = "detected" =>
        \A i, j \in DOMAIN patterns :
            i < j => ~HasLargerConfidence(patterns[j], patterns[i])

\* two patterns, the more regular one from the group created second
C19_Witness ==
    /\ pc = "detected"
    /\ Len(patterns) = 2
    /\ HasLargerConfidence(patterns[1], patterns[2])
    /\ patterns[2].description = Groups[1].key
    /\ patterns[1].description = Groups[2].key

----------------------------------------------------------------------------
(* Specification of the portfolio allocation *)

AllocationInit ==
    /\ pc = "ready"
    /\ portfolioInputs \in PortfolioInputSets
    /\ recommendation = NoRecommendation
    /\ DebtIdle
    /\ MonteCarloIdle
    /\ ProjectionIdle
    /\ RecurringIdle
    /\ FrequencyIdle
    /\ ForecastIdle

\* handleCalculate of PortfolioMix: the recommendation of the form's inputs
CalculateRecommendation ==
    /\ pc = "ready"
    /\ recommendation' = calculatePortfolioAllocation(portfolioInputs)
    /\ pc' = "recommended"
    /\ UNCHANGED <<portfolioInputs, nonAllocationVars>>

AllocationNext == CalculateRecommendation

SpecAllocation == AllocationInit /\ [][AllocationNext]_vars

----------------------------------------------------------------------------
(* Claims on the portfolio allocation *)

RECURSIVE SumOfPercentages(_)
SumOfPercentages(entries) ==
    IF entries = <<>> THEN RatOfInt(0)
    ELSE RatAdd(Head(entries).percentage, SumOfPercentages(Tail(entries)))

\* C20: for every input of calculatePortfolioAllocation the percentages of
\* the returned allocations sum to exactly 100.
C20_PercentagesSumTo100 ==
    pc = "recommended" =>
        SumOfPercentages(recommendation.allocations) = RatOfInt(100)

\* C21: isSustainable is true exactly when the withdrawal rate is at most
\* 4.5 percent, the rate being annualWithdrawal / portfolioAmount x 100 and 0
\* for a zero portfolio, which is therefore reported sustainable.
C21_SustainableIffRateAtMost45 ==
    pc = "recommended" =>
        LET annualWithdrawal == portfolioInputs.annualWithdrawal
            portfolioAmount == portfolioInputs.portfolioAmount
        IN /\ portfolioAmount = 0 =>
                  /\ recommendation.withdrawalRate = RatOfInt(0)
                  /\ recommendation.isSustainable
           /\ portfolioAmount > 0 =>
                  /\ recommendation.withdrawalRate
                         = Rat(100 * annualWithdrawal, portfolioAmount)
                  /\ recommendation.isSustainable
                         <=> (1000 * annualWithdrawal <= 45 * portfolioAmount)

\* a zero portfolio with a withdrawal is reported sustainable
C21_Witness ==
    /\ pc = "recommended"
    /\ portfolioInputs.portfolioAmount = 0
    /\ portfolioInputs.annualWithdrawal > 0
    /\ recommendation.isSustainable

----------------------------------------------------------------------------
(* Further claims on the debt payoff engine *)

FinalBalance(r, i) == StartBalance(r, i, Len(Payments(r, i)) + 1)

\* C27: every recorded payment is its interest plus the amount by which the
\* balance of the debt went down in that month, so that after every month
\* the payments made equal the interest charged plus the sum over the debts
\* of starting balance - current balance; at the end totalPaid = totalInterest
\* + that sum, and when every debt is paid off totalPaid is the sum of the
\* starting balances plus totalInterest.
C27_PaymentsConserved ==
    \A r \in Results :
        /\ \A i \in DOMAIN r.order : \A m \in DOMAIN Payments(r, i) :
              Payments(r, i)[m].payment =
                  Payments(r, i)[m].interest
                    + (StartBalance(r, i, m) - Payments(r, i)[m].balance)
        /\ r.totalPaid =
              r.totalInterest
                + SumSeq([i \in DOMAIN r.order |->
                            Abs(r.order[i].balance) - FinalBalance(r, i)])
        /\ (\A i \in DOMAIN r.order : FinalBalance(r, i) = 0) =>
              r.totalPaid =
                  SumSeq([i \in DOMAIN r.order |-> Abs(r.order[i].balance)])
                    + r.totalInterest

\* every debt is paid off after interest was charged, one payment was
\* capped at balance + interest, and one left interest unpaid
C27_Witness ==
    \E r \in Results :
        /\ Len(r.order) >= 2
        /\ \A i \in DOMAIN r.order :
              Abs(r.order[i].balance) > 0 /\ FinalBalance(r, i) = 0
        /\ r.totalInterest > 0
        /\ r.totalPaid > r.totalInterest
        /\ \E i \in DOMAIN r.order : \E m \in DOMAIN Payments(r, i) :
              Payments(r, i)[m].principal < 0
        /\ \E i \in DOMAIN r.order : \E m \in DOMAIN Payments(r, i) :
              Payments(r, i)[m].payment < r.order[i].minimumPayment

\* the sum of the payments recorded in month m
PaidInMonth(r, m) ==
    SumSeq([i \in DOMAIN r.order |->
              IF m <= Len(Payments(r, i)) THEN Payments(r, i)[m].payment ELSE 0])

\* extraMonthlyPayment plus the minimum payments of all debts of the list
MonthlyBudget(r) ==
    extraPayment + SumSeq([i \in DOMAIN r.order |-> r.order[i].minimumPayment])

\* C28: in every simulated month the payments recorded across all debts sum
\* to at most extraMonthlyPayment plus the minimum payments of all debts.
C28_MonthlyPaymentsWithinBudget ==
    \A r \in Results : \A m \in 1..r.months :
        PaidInMonth(r, m) <= MonthlyBudget(r)

\* with an extra payment, the whole budget goes to the one debt that still
\* owes after the other was paid off
C28_Witness ==
    \E r \in Results : \E m \in 1..r.months :
        /\ extraPayment > 0
        /\ Len(r.order) >= 2
        /\ \E i \in DOMAIN r.order :
              /\ Abs(r.order[i].balance) > 0
              /\ r.order[i].minimumPayment > 0
              /\ Len(Payments(r, i)) < m
        /\ PaidInMonth(r, m) = MonthlyBudget(r)

----------------------------------------------------------------------------
(* Specification of the zero-volatility simulation beside the projection *)

\* zero-volatility parameters without negative amounts
EquivalenceParamSets ==
    {ps \in [initialValue : 0..MaxEquivalenceValue,
             monthlyContribution : 0..MaxEquivalenceContribution,
             annualReturn : ProjectionReturns,
             annualVolatility : {0},
             inflationRate : InflationRates,
             years : 1..MaxEquivalenceYears,
             numSimulations : {1}] : WithinIntegers(ps)}

\* the arguments of calculateInvestmentProjection for the same inputs over
\* y years
ProjectionArgsOf(ps, y) ==
    [portfolioValue |-> ps.initialValue,
     monthlyContribution |-> ps.monthlyContribution,
     annualReturn |-> ps.annualReturn,
     years |-> y,
     inflationRate |-> ps.inflationRate]

EquivalenceInit ==
    /\ pc = "ready"
    /\ params \in EquivalenceParamSets
    /\ allPaths = <<>>
    /\ mcResult = NoMonteCarloResult
    /\ secondResult = NoMonteCarloResult
    /\ projectionArgs = ProjectionArgsOf(params, params.years)
    /\ projection = NoProjection
    /\ DebtIdle
    /\ RecurringIdle
    /\ AllocationIdle
    /\ FrequencyIdle
    /\ ForecastIdle

\* calculateInvestmentProjection on the inputs of the simulation
ProjectSameInputs ==
    /\ pc = "simulated"
    /\ projection' = calculateInvestmentProjection(projectionArgs)
    /\ pc' = "projected"
    /\ UNCHANGED <<projectionArgs, nonProjectionVars>>

EquivalenceNext ==
    \/ RunDeterministic
    \/ ProjectSameInputs

SpecEquivalence == EquivalenceInit /\ [][EquivalenceNext]_vars

\* C23: for initialValue >= 0 and monthlyContribution >= 0 the balance that
\* the zero-volatility path reaches after 12y months is the futureValue of
\* calculateInvestmentProjection for y years, and where inflation is
\* applied the percentile of year y is its realValue.
C23_ZeroVolatilityIsProjection ==
    (pc = "projected" /\ projection.done) =>
        /\ Len(mcResult.finalValues) = 1
        /\ RatOfInt(mcResult.finalValues[1]) = projection.futureValue
        /\ mcResult.medianFinal = projection.futureValue
        /\ params.inflationRate >= 0 =>
              /\ mcResult.yearlyData[params.years].p50 = projection.realValue
              /\ \A y \in 1..params.years :
                    mcResult.yearlyData[y].p50 =
                       calculateInvestmentProjection(
                           ProjectionArgsOf(params, y)).realValue

\* two years of growth on a starting value and contributions, deflated
C23_Witness ==
    /\ pc = "projected"
    /\ projection.done
    /\ params.initialValue > 0
    /\ params.monthlyContribution > 0
    /\ params.annualReturn > 0
    /\ params.inflationRate > 0
    /\ params.years >= 2
    /\ mcResult.yearlyData[params.years].p50 = projection.realValue
    /\ projection.realValue # projection.futureValue

----------------------------------------------------------------------------
(* Specification of detectFrequency *)

FrequencyInit ==
    /\ pc = "ready"
    /\ dayGaps \in IntervalLists
    /\ gapFrequency = "none"
    /\ DebtIdle
    /\ MonteCarloIdle
    /\ ProjectionIdle
    /\ RecurringIdle
    /\ AllocationIdle
    /\ ForecastIdle

DetectFrequency ==
    /\ pc = "ready"
    /\ gapFrequency' = detectFrequency(dayGaps)
    /\ pc' = "classified"
    /\ UNCHANGED <<dayGaps, nonFrequencyVars>>

FrequencyNext == DetectFrequency

SpecFrequency == FrequencyInit /\ [][FrequencyNext]_vars

\* the mean of the gaps lies within tolerance of centre: |m - centre| <=
\* tolerance, m = sum / n
InBand(gaps, centre, tolerance) ==
    /\ Len(gaps) > 0
    /\ centre * Len(gaps) - tolerance * Len(gaps) <= SumSeq(gaps)
    /\ SumSeq(gaps) <= centre * Len(gaps) + tolerance * Len(gaps)

\* C24: detectFrequency classifies a list of day gaps by its mean m only:
\* weekly iff |m-7| <= 2, biweekly iff |m-14| <= 3, monthly iff |m-30| <= 5,
\* quarterly iff |m-90| <= 15, yearly iff |m-365| <= 30, null otherwise; no
\* mean lies in two bands.
C24_ClassifiedByMeanBand ==
    pc = "classified" =>
        /\ gapFrequency = "weekly" <=> InBand(dayGaps, 7, 2)
        /\ gapFrequency = "biweekly" <=> InBand(dayGaps, 14, 3)
        /\ gapFrequency = "monthly" <=> InBand(dayGaps, 30, 5)
        /\ gapFrequency = "quarterly" <=> InBand(dayGaps, 90, 15)
        /\ gapFrequency = "yearly" <=> InBand(dayGaps, 365, 30)
        /\ gapFrequency = "null" <=>
              ~(\/ InBand(dayGaps, 7, 2) \/ InBand(dayGaps, 14, 3)
                \/ InBand(dayGaps, 30, 5) \/ InBand(dayGaps, 90, 15)
                \/ InBand(dayGaps, 365, 30))
        /\ gapFrequency \in
              {"weekly", "biweekly", "monthly", "quarterly", "yearly", "null"}

\* a gap below the yearly band and one inside it, with their mean on the
\* lower edge of the band
C24_Witness ==
    /\ pc = "classified"
    /\ dayGaps = <<334, 336>>
    /\ gapFrequency = "yearly"

----------------------------------------------------------------------------
(* Further claims on the recurring pattern detector *)

\* the positions of the groups that hold the transaction with this id
GroupsHolding(id) ==
    {g \in DOMAIN Groups : \E j \in DOMAIN Groups[g].txns : Groups[g].txns[j].id = id}

\* C25: the transactions are grouped in input order: one with a non-empty
\* normalized description joins the first group, in creation order, whose
\* key shares more than 0.6 of the united words with it, and otherwise
\* starts a group keyed by its normalized description; keys and earlier
\* members stay as they are, so such a transaction is in exactly one group,
\* and no transaction is in two groups or in two returned patterns.
C25_JoinsFirstSimilarGroup ==
    pc = "detected" =>
        /\ \A i \in DOMAIN transactions :
              LET before == groupBySimilarDescription(SubSeq(transactions, 1, i - 1))
                  after == groupBySimilarDescription(SubSeq(transactions, 1, i))
                  txn == transactions[i]
                  normalized == normalizeDescription(txn.description)
                  similar ==
                      {k \in DOMAIN before :
                          5 * Cardinality(Words(normalized) \cap Words(before[k].key))
                            > 3 * Cardinality(Words(normalized) \cup Words(before[k].key))}
              IN IF normalized = <<>> THEN after = before
                 ELSE IF similar # {}
                 THEN LET first == CHOOSE k \in similar : \A j \in similar : k <= j
                      IN after = [before EXCEPT ![first].txns = Append(@, txn)]
                 ELSE after = Append(before, [key |-> normalized, txns |-> <<txn>>])
        /\ \A i \in DOMAIN transactions :
              /\ normalizeDescription(transactions[i].description) # <<>> =>
                    Cardinality(GroupsHolding(transactions[i].id)) = 1
              /\ Cardinality(GroupsHolding(transactions[i].id)) <= 1
              /\ \A g \in GroupsHolding(transactions[i].id) :
                    Cardinality({j \in DOMAIN Groups[g].txns :
                                   Groups[g].txns[j].id = transactions[i].id}) = 1
              /\ Cardinality({p \in DOMAIN patterns :
                                \E j \in DOMAIN patterns[p].transactions :
                                    patterns[p].transactions[j].id = transactions[i].id})
                    <= 1

\* a transaction that is similar to the keys of two groups is in the one
\* created first, which becomes a pattern
C25_Witness ==
    /\ pc = "detected"
    /\ \E i \in DOMAIN transactions : \E g, h \in DOMAIN Groups :
          /\ g < h
          /\ areSimilar(normalizeDescription(transactions[i].description), Groups[g].key)
          /\ areSimilar(normalizeDescription(transactions[i].description), Groups[h].key)
          /\ GroupsHolding(transactions[i].id) = {g}
          /\ PatternsOf(Groups[g].key) # {}

----------------------------------------------------------------------------
(* Specification of projectFutureTransactions *)

ForecastInit ==
    /\ pc = "ready"
    /\ \E list \in PatternLists, monthsAhead \in MonthsAhead, now \in Nows :
          forecastArgs = [patterns |-> list, monthsAhead |-> monthsAhead, now |-> now]
    /\ projected = <<>>
    /\ DebtIdle
    /\ MonteCarloIdle
    /\ ProjectionIdle
    /\ RecurringIdle
    /\ AllocationIdle
    /\ FrequencyIdle

\* a call that does not return stays in "projecting"
ProjectFuture ==
    /\ pc = "ready"
    /\ LET r == projectFutureTransactions(
                    forecastArgs.patterns, forecastArgs.monthsAhead, forecastArgs.now)
       IN /\ projected' = r.emitted
          /\ pc' = IF r.returned THEN "projected" ELSE "projecting"
    /\ UNCHANGED <<forecastArgs, nonForecastVars>>

ForecastNext == ProjectFuture

SpecForecast == ForecastInit /\ [][ForecastNext]_vars

\* the day number of the last date that may be emitted
Horizon == DayNumber(addMonths(forecastArgs.now, forecastArgs.monthsAhead))

\* the days of one period, or 0 for a period counted in calendar months
PeriodDays(frequency) ==
    IF frequency = "weekly" THEN 7 ELSE IF frequency = "biweekly" THEN 14 ELSE 0

PeriodMonths(frequency) ==
    IF frequency = "monthly" THEN 1
    ELSE IF frequency = "quarterly" THEN 3
    ELSE IF frequency = "yearly" THEN 12
    ELSE 0

\* the date one period after date
OnePeriodLater(date, frequency) ==
    IF PeriodDays(frequency) > 0 THEN AddDays(date, PeriodDays(frequency))
    ELSE addMonths(date, PeriodMonths(frequency))

\* n dates: the first one, then one period later each time; the list is
\* built in halves
RECURSIVE OccurrencesFrom(_, _, _)
OccurrencesFrom(date, frequency, n) ==
    IF n = 0 THEN <<>>
    ELSE IF n = 1 THEN <<date>>
    ELSE Only({first \o OccurrencesFrom(OnePeriodLater(first[Len(first)], frequency),
                                        frequency, n - (n \div 2)) :
                  first \in {OccurrencesFrom(date, frequency, n \div 2)}})

\* the day numbers of the dates of a pattern
OccurrenceDays(pattern) ==
    LET dates == OccurrencesFrom(pattern.nextOccurrence, pattern.frequency,
                                 MaxIterations + 1)
    IN [k \in DOMAIN dates |-> DayNumber(dates[k])]

\* the number of leading occurrences of a pattern that are within the horizon
OccurrencesWithin(pattern) ==
    LET days == OccurrenceDays(pattern)
        horizon == Horizon
    IN CHOOSE n \in 0..MaxIterations :
           /\ \A k \in 1..n : days[k] <= horizon
           /\ days[n + 1] > horizon

\* the number of transactions emitted for the patterns before position p
RECURSIVE EmittedBefore(_)
EmittedBefore(p) ==
    IF p = 1 THEN 0
    ELSE EmittedBefore(p - 1) + OccurrencesWithin(forecastArgs.patterns[p - 1])

\* C26: projectFutureTransactions returns for every pattern list; for each
\* pattern, in list order, it emits one transaction dated nextOccurrence and
\* then one per successive period, in increasing date order, as long as the
\* date is at most now + monthsAhead months, each with the average amount of
\* the pattern; a pattern whose nextOccurrence is after the horizon and an
\* empty list emit nothing; each loop takes at most one iteration per week
\* between nextOccurrence and the horizon.
C26_ProjectionEmitsPeriodsUpToHorizon ==
    pc # "ready" =>
        LET list == forecastArgs.patterns
        IN /\ pc = "projected"
           /\ Len(projected) = EmittedBefore(Len(list) + 1)
           /\ \A p \in DOMAIN list :
                 LET n == OccurrencesWithin(list[p])
                     first == DayNumber(list[p].nextOccurrence)
                     before == EmittedBefore(p)
                     horizon == Horizon
                     dates == OccurrencesFrom(list[p].nextOccurrence,
                                              list[p].frequency, n)
                 IN /\ first > horizon => n = 0
                    /\ first <= horizon => n >= 1 /\ 7 * (n - 1) <= horizon - first
                    /\ \A k \in 1..n :
                          LET txn == projected[before + k]
                          IN /\ txn.date = dates[k]
                             /\ DayNumber(txn.date) <= horizon
                             /\ txn.amount = list[p].averageAmount
                             /\ txn.description = list[p].description \o ProjectedSuffix
                             /\ k > 1 =>
                                   DayNumber(projected[before + k - 1].date)
                                     < DayNumber(txn.date)
           /\ list = <<>> => projected = <<>>

\* a monthly pattern that starts on the last day of January is projected on
\* the leap day, which is the horizon itself, and a second pattern follows it
C26_Witness ==
    /\ pc = "projected"
    /\ Len(forecastArgs.patterns) = 2
    /\ forecastArgs.patterns[1].frequency = "monthly"
    /\ forecastArgs.patterns[1].nextOccurrence = Day(2024, 1, 31)
    /\ Horizon = DayNumber(Day(2024, 2, 29))
    /\ Len(projected) = 3
    /\ projected[2].date = Day(2024, 2, 29)
    /\ projected[3].date = Day(2024, 2, 29)
    /\ projected[3].amount = RatOfInt(25)

\* C29: two transactions whose normalized descriptions are identical and
\* not empty are in the same group, whatever else the list holds and in
\* whatever order it is given.
C29_SameNormalizedSameGroup ==
    pc = "detected" =>
        \A i, j \in DOMAIN transactions :
            (/\ normalizeDescription(transactions[i].description)
                  = normalizeDescription(transactions[j].description)
             /\ normalizeDescription(transactions[i].description) # <<>>)
            => /\ GroupsHolding(transactions[i].id) = GroupsHolding(transactions[j].id)
               /\ GroupsHolding(transactions[i].id) # {}

\* two transactions with different descriptions and the same normalized
\* description share a group whose key is another description, with a
\* second group between them that is similar to both
C29_Witness ==
    /\ pc = "detected"
    /\ \E i, j \in DOMAIN transactions : \E g, h \in DOMAIN Groups :
          /\ i + 1 < j
          /\ transactions[i].description # transactions[j].description
          /\ normalizeDescription(transactions[i].description)
                = normalizeDescription(transactions[j].description)
          /\ GroupsHolding(transactions[i].id) = {g}
          /\ GroupsHolding(transactions[j].id) = {g}
          /\ Groups[g].key # normalizeDescription(transactions[i].description)
          /\ g < h
          /\ areSimilar(normalizeDescription(transactions[j].description), Groups[h].key)

----------------------------------------------------------------------------
(* Further claims on the portfolio allocation *)

\* 0 <= percentage <= 100; false of NaN
IsPercentage(percentage) ==
    RatLeq(RatOfInt(0), percentage) /\ RatLeq(percentage, RatOfInt(100))

\* C30: every percentage of the recommendation, of the allocations and of
\* the ETF entries, lies between 0 and 100 for every age and withdrawal
\* horizon, the already-withdrawing band included.
C30_PercentagesWithinRange ==
    pc = "recommended" =>
        /\ \A k \in DOMAIN recommendation.allocations :
              IsPercentage(recommendation.allocations[k].percentage)
        /\ \A k \in DOMAIN recommendation.etfRecommendations :
              IsPercentage(recommendation.etfRecommendations[k].percentage)

====
